---- MODULE Spec2Model ----
(***************************************************************************)
(* cell_wrappers: the def_cells group expander, the capability trait       *)
(* lattice and the c_scp owner scopes, as a state machine.                 *)
(*                                                                         *)
(* The static half (traits, @line tables, group arms) is a set of pure     *)
(* operators that compute the module a declaration expands to.  The        *)
(* dynamic half is the most general single-threaded client of the          *)
(* generated modules: it declares groups, calls the accessors, implements  *)
(* Get*Owner with the impl_get_* macros and opens c_scp blocks, nested in  *)
(* any way the bounds allow.                                               *)
(***************************************************************************)
EXTENDS Integers, Sequences, FiniteSets, Bags, TLC

(* ------------------------------------------------------------------ *)
(* Bounds of the model                                                 *)
(* ------------------------------------------------------------------ *)
MaxDepth == 2
MaxCells == 2

(* ------------------------------------------------------------------ *)
(* Enumerations (lib.rs 905-927)                                       *)
(* ------------------------------------------------------------------ *)
CellImpl == {"T", "TL"}

CellAccessLevels == {"Uniform", "Private", "Public"}

CellRoles == {"Marker", "Owner", "Cell"}

Levels == {"private", "uniform", "public"}

(* ------------------------------------------------------------------ *)
(* The capability trait lattice (lib.rs 929-1126)                      *)
(* A trait with provided methods is the record of what they return.    *)
(* ------------------------------------------------------------------ *)
IsTImpl == [get_cell_impl |-> "T", get_self_cell_impl |-> "T"]

IsTLImpl == [get_cell_impl |-> "TL", get_self_cell_impl |-> "TL"]

IsGTPvtAccess ==
    [is_private_access |-> TRUE, is_uniform_access |-> FALSE,
     is_public_access |-> FALSE, get_access_level |-> "Private",
     is_self_private_access |-> TRUE, is_self_uniform_access |-> FALSE,
     is_self_public_access |-> FALSE, get_self_access_level |-> "Private"]

IsGTUniAccess ==
    [is_private_access |-> FALSE, is_uniform_access |-> TRUE,
     is_public_access |-> FALSE, get_access_level |-> "Uniform",
     is_self_private_access |-> FALSE, is_self_uniform_access |-> TRUE,
     is_self_public_access |-> FALSE, get_self_access_level |-> "Uniform"]

(* Faulty variant of the public access trait: it also claims the      *)
(* uniform level.                                                      *)
IsGTPubAccessToo ==
    [is_private_access |-> FALSE, is_uniform_access |-> TRUE,
     is_public_access |-> TRUE, get_access_level |-> "Public",
     is_self_private_access |-> FALSE, is_self_uniform_access |-> FALSE,
     is_self_public_access |-> TRUE, get_self_access_level |-> "Public"]

IsGTPubAccess ==
    [is_private_access |-> FALSE, is_uniform_access |-> FALSE,
     is_public_access |-> TRUE, get_access_level |-> "Public",
     is_self_private_access |-> FALSE, is_self_uniform_access |-> FALSE,
     is_self_public_access |-> TRUE, get_self_access_level |-> "Public"]

IsGTMarker == [get_cell_role |-> "Marker", get_self_cell_role |-> "Marker"]

IsGTOwner == [get_cell_role |-> "Owner", get_self_cell_role |-> "Owner"]

IsGTCell == [get_cell_role |-> "Cell", get_self_cell_role |-> "Cell"]

(* The supertraits each trait declares (lib.rs 932-1126). *)
Supertraits ==
    [IsTImpl |-> {},
     IsTLImpl |-> {},
     IsGTPvtAccess |-> {},
     IsTPvtAccess |-> {"IsGTPvtAccess", "IsTImpl"},
     IsTLPvtAccess |-> {"IsGTPvtAccess", "IsTLImpl"},
     IsGTUniAccess |-> {},
     IsTUniAccess |-> {"IsGTUniAccess", "IsTImpl"},
     IsTLUniAccess |-> {"IsGTUniAccess", "IsTLImpl"},
     IsGTPubAccess |-> {},
     IsTPubAccess |-> {"IsGTPubAccess", "IsTImpl"},
     IsTLPubAccess |-> {"IsGTPubAccess", "IsTLImpl"},
     IsGTMarker |-> {},
     IsGTUniMarker |-> {"IsGTMarker", "IsGTUniAccess"},
     IsGTPubMarker |-> {"IsGTMarker", "IsGTPubAccess"},
     IsGTPvtMarker |-> {"IsGTMarker", "IsGTPvtAccess"},
     IsTMarker |-> {"IsGTMarker", "IsTImpl"},
     IsTUniMarker |-> {"IsTMarker", "IsTUniAccess"},
     IsTPubMarker |-> {"IsTMarker", "IsTPubAccess"},
     IsTPvtMarker |-> {"IsTMarker", "IsTPvtAccess"},
     IsTLMarker |-> {"IsGTMarker", "IsTLImpl"},
     IsTLUniMarker |-> {"IsTLMarker", "IsTLUniAccess"},
     IsTLPubMarker |-> {"IsTLMarker", "IsTLPubAccess"},
     IsTLPvtMarker |-> {"IsTLMarker", "IsTLPvtAccess"},
     IsGTOwner |-> {},
     IsGTUniOwner |-> {"IsGTOwner", "IsGTUniAccess"},
     IsGTPubOwner |-> {"IsGTOwner", "IsGTPubAccess"},
     IsGTPvtOwner |-> {"IsGTOwner", "IsGTPvtAccess"},
     IsTOwner |-> {"IsGTOwner", "IsTImpl"},
     IsTUniOwner |-> {"IsTOwner", "IsTUniAccess"},
     IsTPubOwner |-> {"IsTOwner", "IsTPubAccess"},
     IsTPvtOwner |-> {"IsTOwner", "IsTPvtAccess"},
     IsTLOwner |-> {"IsGTOwner", "IsTLImpl"},
     IsTLUniOwner |-> {"IsTLOwner", "IsTLUniAccess"},
     IsTLPubOwner |-> {"IsTLOwner", "IsTLPubAccess"},
     IsTLPvtOwner |-> {"IsTLOwner", "IsTLPvtAccess"},
     IsGTCell |-> {},
     IsGTUniCell |-> {"IsGTCell", "IsGTUniAccess"},
     IsGTPubCell |-> {"IsGTCell", "IsGTPubAccess"},
     IsGTPvtCell |-> {"IsGTCell", "IsGTPvtAccess"},
     IsTCell |-> {"IsGTCell", "IsTImpl"},
     IsTUniCell |-> {"IsTCell", "IsTUniAccess"},
     IsTPubCell |-> {"IsTCell", "IsTPubAccess"},
     IsTPvtCell |-> {"IsTCell", "IsTPvtAccess"},
     IsTLCell |-> {"IsGTCell", "IsTLImpl"},
     IsTLUniCell |-> {"IsTLCell", "IsTLUniAccess"},
     IsTLPubCell |-> {"IsTLCell", "IsTLPubAccess"},
     IsTLPvtCell |-> {"IsTLCell", "IsTLPvtAccess"}]

RECURSIVE Bounds(_)
(* The traits a bound on `trait` gives: itself and its supertraits, all  *)
(* the way up.                                                           *)
Bounds(trait) ==
    {trait} \cup UNION {Bounds(t) : t \in Supertraits[trait]}

(* The traits that provide methods, by name. *)
MethodTraits ==
    [IsTImpl |-> IsTImpl, IsTLImpl |-> IsTLImpl,
     IsGTPvtAccess |-> IsGTPvtAccess, IsGTUniAccess |-> IsGTUniAccess,
     IsGTPubAccess |-> IsGTPubAccess,
     IsGTMarker |-> IsGTMarker, IsGTOwner |-> IsGTOwner, IsGTCell |-> IsGTCell]

(* The traits among `impls` whose provided methods include `method`:     *)
(* a path call Type::method() resolves iff there is exactly one.         *)
Providers(impls, method) ==
    {t \in impls \cap DOMAIN MethodTraits : method \in DOMAIN MethodTraits[t]}

(* What Type::method() (or value.method()) can return for a type that    *)
(* implements `impls`.                                                   *)
Call(impls, method) ==
    {MethodTraits[t][method] : t \in Providers(impls, method)}

(* Faulty variant of the blanket implementations: the thread-local     *)
(* qcell types are given the implementation trait of the global ones.  *)
BlanketImplsOneKind(base) ==
    CASE base \in {"TCell", "TLCell"} -> {"IsTImpl", "IsGTCell", "IsTCell"}
      [] base \in {"TCellOwner", "TLCellOwner"} ->
            {"IsTImpl", "IsGTOwner", "IsTOwner"}
      [] OTHER -> {}

(* Blanket implementations for the qcell types (lib.rs 1146-1161). *)
BlanketImpls(base) ==
    CASE base = "TCell" -> {"IsTImpl", "IsGTCell", "IsTCell"}
      [] base = "TLCell" -> {"IsTLImpl", "IsGTCell", "IsTLCell"}
      [] base = "TCellOwner" -> {"IsTImpl", "IsGTOwner", "IsTOwner"}
      [] base = "TLCellOwner" -> {"IsTLImpl", "IsGTOwner", "IsTLOwner"}
      [] OTHER -> {}

(* ------------------------------------------------------------------ *)
(* Panic messages (lib.rs 1686-1733), as their sequence of words       *)
(* ------------------------------------------------------------------ *)
UnavailableMsg(level, what) ==
    <<"Tried", "to", "request", "a", level, what, "from", "a", "mod",
      "that", "cannot", "provide", "one.">>

pvt_owner_unavailable_msg == UnavailableMsg("private", "owner")

uni_owner_unavailable_msg == UnavailableMsg("uniform", "owner")

pub_owner_unavailable_msg == UnavailableMsg("public", "owner")

pvt_cell_unavailable_msg == UnavailableMsg("private", "cell")

uni_cell_unavailable_msg == UnavailableMsg("uniform", "cell")

pub_cell_unavailable_msg == UnavailableMsg("public", "cell")

(* ------------------------------------------------------------------ *)
(* def_cells: the @line tables (lib.rs 2314-2450)                      *)
(* ------------------------------------------------------------------ *)
Decls ==
    {"TCellUniGrp", "TCellAccGrp", "TLCellUniGrp", "TLCellAccGrp",
     "TCellPubGrp", "TCellPvtGrp", "TLCellPubGrp", "TLCellPvtGrp"}

(* The twelve macro variables every @for_*_group arm receives. *)
Table(ct, ot, mpv, mpb, opv, opb, cpv, cpb, it, mit, pvi, pbi) ==
    [cell_type |-> ct, owner_type |-> ot,
     marker_pvt_type |-> mpv, marker_pub_type |-> mpb,
     owner_pvt_type |-> opv, owner_pub_type |-> opb,
     cell_pvt_type |-> cpv, cell_pub_type |-> cpb,
     impl_type |-> it, marker_impl_type |-> mit,
     pvt_impl_type |-> pvi, pub_impl_type |-> pbi]

(* Faulty variant of a constructing accessor: it diverges instead. *)
ReturnsNever(ty) == [kind |-> "panic", ty |-> ty, msg |-> <<>>]

(* What an accessor of a generated module does. *)
Returns(ty) == [kind |-> "new", ty |-> ty, msg |-> <<>>]

Panics(msg) == [kind |-> "panic", ty |-> "", msg |-> msg]

(* Faulty variant of a generated type: every type is also given the    *)
(* uniform access trait.                                                *)
TypeAlsoUniform(base, marker, impls) ==
    [base |-> base, marker |-> marker,
     impls |-> impls \cup BlanketImpls(base) \cup {"IsGTUniAccess"}]

(* A generated type: the qcell type it aliases ("struct" for a Marker), *)
(* the Marker it is tied to, and the traits implemented for it.         *)
Type(base, marker, impls) ==
    [base |-> base, marker |-> marker, impls |-> impls \cup BlanketImpls(base)]

(* Faulty variant of a bridge: every level asks the private getter. *)
BridgeAsksPrivate(trait, owner, getter) ==
    [trait |-> trait, OwnerType |-> owner,
     get_new_matching_owner |-> owner,
     get_matching_owner_from |-> "get_private_owner"]

(* impl GetEasy*Owner for a Cell type. *)
Bridge(trait, owner, getter) ==
    [trait |-> trait, OwnerType |-> owner,
     get_new_matching_owner |-> owner, get_matching_owner_from |-> getter]

(* @for_uniform_group (lib.rs 1738-1843) *)
for_uniform_group(t) ==
    [types |->
        [UniMarker |-> Type("struct", "UniMarker",
            {"IsGTUniAccess", "IsGTMarker", t.impl_type, t.pvt_impl_type,
             t.marker_impl_type, t.marker_pvt_type}),
         UniCell |-> Type(t.cell_type, "UniMarker",
            {"IsGTUniAccess", t.pvt_impl_type, t.cell_pvt_type}),
         UniOwner |-> Type(t.owner_type, "UniMarker",
            {"IsGTUniAccess", t.pvt_impl_type, t.owner_pvt_type})],
     bridges |->
        [UniCell |-> Bridge("GetEasyUniOwner", "UniOwner", "get_uniform_owner")],
     get_cell_impl |-> "UniMarker",
     has_private_access |-> FALSE,
     has_uniform_access |-> TRUE,
     has_public_access |-> FALSE,
     new_private_owner |-> Panics(pvt_owner_unavailable_msg),
     new_uniform_owner |-> Returns("UniOwner"),
     new_public_owner |-> Panics(pub_owner_unavailable_msg),
     new_private_cell |-> Panics(uni_cell_unavailable_msg),
     new_uniform_cell |-> Returns("UniCell"),
     new_public_cell |-> Panics(pub_cell_unavailable_msg)]

(* @for_access_group (lib.rs 1846-1985) *)
for_access_group(t) ==
    [types |->
        [PubMarker |-> Type("struct", "PubMarker",
            {"IsGTPubAccess", "IsGTMarker", t.impl_type, t.pub_impl_type,
             t.marker_impl_type, t.marker_pub_type}),
         PubCell |-> Type(t.cell_type, "PubMarker",
            {"IsGTPubAccess", t.pub_impl_type, t.cell_pub_type}),
         PubOwner |-> Type(t.owner_type, "PubMarker",
            {"IsGTPubAccess", t.pub_impl_type, t.owner_pub_type}),
         PvtMarker |-> Type("struct", "PvtMarker",
            {"IsGTPvtAccess", "IsGTMarker", t.impl_type, t.pvt_impl_type,
             t.marker_impl_type, t.marker_pvt_type}),
         PvtCell |-> Type(t.cell_type, "PvtMarker",
            {"IsGTPvtAccess", t.pvt_impl_type, t.cell_pvt_type}),
         PvtOwner |-> Type(t.owner_type, "PvtMarker",
            {"IsGTPvtAccess", t.pvt_impl_type, t.owner_pvt_type})],
     bridges |->
        [PubCell |-> Bridge("GetEasyPubOwner", "PubOwner", "get_public_owner"),
         PvtCell |-> Bridge("GetEasyPvtOwner", "PvtOwner", "get_private_owner")],
     get_cell_impl |-> "PvtMarker",
     has_private_access |-> TRUE,
     has_uniform_access |-> FALSE,
     has_public_access |-> TRUE,
     new_private_owner |-> Returns("PvtOwner"),
     new_uniform_owner |-> Panics(uni_owner_unavailable_msg),
     new_public_owner |-> Returns("PubOwner"),
     new_private_cell |-> Returns("PvtCell"),
     new_uniform_cell |-> Panics(uni_cell_unavailable_msg),
     new_public_cell |-> Returns("PubCell")]

(* @for_public_group (lib.rs 1988-2092) *)
for_public_group(t) ==
    [types |->
        [PubMarker |-> Type("struct", "PubMarker",
            {"IsGTPubAccess", "IsGTMarker", t.impl_type, t.pub_impl_type,
             t.marker_impl_type, t.marker_pub_type}),
         PubCell |-> Type(t.cell_type, "PubMarker",
            {"IsGTPubAccess", t.pub_impl_type, t.cell_pub_type}),
         PubOwner |-> Type(t.owner_type, "PubMarker",
            {"IsGTPubAccess", t.pub_impl_type, t.owner_pub_type})],
     bridges |->
        [PubCell |-> Bridge("GetEasyPubOwner", "PubOwner", "get_public_owner")],
     get_cell_impl |-> "PubMarker",
     has_private_access |-> FALSE,
     has_uniform_access |-> FALSE,
     has_public_access |-> TRUE,
     new_private_owner |-> Panics(pvt_owner_unavailable_msg),
     new_uniform_owner |-> Panics(uni_owner_unavailable_msg),
     new_public_owner |-> Returns("PubOwner"),
     new_private_cell |-> Panics(pvt_cell_unavailable_msg),
     new_uniform_cell |-> Panics(uni_cell_unavailable_msg),
     new_public_cell |-> Returns("PubCell")]

(* @for_private_group (lib.rs 2095-2200) *)
for_private_group(t) ==
    [types |->
        [PvtMarker |-> Type("struct", "PvtMarker",
            {"IsGTPvtAccess", "IsGTMarker", t.impl_type, t.pvt_impl_type,
             t.marker_impl_type, t.marker_pvt_type}),
         PvtCell |-> Type(t.cell_type, "PvtMarker",
            {"IsGTPvtAccess", t.pvt_impl_type, t.cell_pvt_type}),
         PvtOwner |-> Type(t.owner_type, "PvtMarker",
            {"IsGTPvtAccess", t.pvt_impl_type, t.owner_pvt_type})],
     bridges |->
        [PvtCell |-> Bridge("GetEasyPvtOwner", "PvtOwner", "get_private_owner")],
     get_cell_impl |-> "PvtMarker",
     has_private_access |-> TRUE,
     has_uniform_access |-> FALSE,
     has_public_access |-> FALSE,
     new_private_owner |-> Returns("PvtOwner"),
     new_uniform_owner |-> Panics(uni_owner_unavailable_msg),
     new_public_owner |-> Panics(pub_owner_unavailable_msg),
     new_private_cell |-> Returns("PvtCell"),
     new_uniform_cell |-> Panics(uni_cell_unavailable_msg),
     new_public_cell |-> Panics(pub_cell_unavailable_msg)]

(* Faulty variant of @for_individual: the public and private arms are  *)
(* taken for each other.                                               *)
for_individual_swapped(t, arm) ==
    CASE arm = "for_uniform" -> for_uniform_group(t)
      [] arm = "for_access" -> for_access_group(t)
      [] arm = "for_public" -> for_private_group(t)
      [] arm = "for_private" -> for_public_group(t)

(* @for_individual (lib.rs 2202-2312): the arm named by the last token. *)
for_individual(t, arm) ==
    CASE arm = "for_uniform" -> for_uniform_group(t)
      [] arm = "for_access" -> for_access_group(t)
      [] arm = "for_public" -> for_public_group(t)
      [] arm = "for_private" -> for_private_group(t)

(* @line (lib.rs 2315-2450): `name : Category` to its table and arm. *)
line(category) ==
    CASE category = "TCellUniGrp" -> for_individual(
            Table("TCell", "TCellOwner", "IsTUniMarker", "IsTUniMarker",
                  "IsTUniOwner", "IsTUniOwner", "IsTUniCell", "IsTUniCell",
                  "IsTImpl", "IsTMarker", "IsTUniAccess", "IsTUniAccess"),
            "for_uniform")
      [] category = "TCellAccGrp" -> for_individual(
            Table("TCell", "TCellOwner", "IsTPvtMarker", "IsTPubMarker",
                  "IsTPvtOwner", "IsTPubOwner", "IsTPvtCell", "IsTPubCell",
                  "IsTImpl", "IsTMarker", "IsTPvtAccess", "IsTPubAccess"),
            "for_access")
      [] category = "TLCellUniGrp" -> for_individual(
            Table("TLCell", "TLCellOwner", "IsTLUniMarker", "IsTLUniMarker",
                  "IsTLUniOwner", "IsTLUniOwner", "IsTLUniCell", "IsTLUniCell",
                  "IsTLImpl", "IsTLMarker", "IsTLUniAccess", "IsTLUniAccess"),
            "for_uniform")
      [] category = "TLCellAccGrp" -> for_individual(
            Table("TLCell", "TLCellOwner", "IsTLPvtMarker", "IsTLPubMarker",
                  "IsTLPvtOwner", "IsTLPubOwner", "IsTLPvtCell", "IsTLPubCell",
                  "IsTLImpl", "IsTLMarker", "IsTLPvtAccess", "IsTLPubAccess"),
            "for_access")
      [] category = "TCellPubGrp" -> for_individual(
            Table("TCell", "TCellOwner", "IsTPubMarker", "IsTPubMarker",
                  "IsTPubOwner", "IsTPubOwner", "IsTPubCell", "IsTPubCell",
                  "IsTImpl", "IsTMarker", "IsTPubAccess", "IsTPubAccess"),
            "for_public")
      [] category = "TCellPvtGrp" -> for_individual(
            Table("TCell", "TCellOwner", "IsTPvtMarker", "IsTPvtMarker",
                  "IsTPvtOwner", "IsTPvtOwner", "IsTPvtCell", "IsTPvtCell",
                  "IsTImpl", "IsTMarker", "IsTPvtAccess", "IsTPvtAccess"),
            "for_private")
      [] category = "TLCellPubGrp" -> for_individual(
            Table("TLCell", "TLCellOwner", "IsTLPubMarker", "IsTLPubMarker",
                  "IsTLPubOwner", "IsTLPubOwner", "IsTLPubCell", "IsTLPubCell",
                  "IsTLImpl", "IsTLMarker", "IsTLPubAccess", "IsTLPubAccess"),
            "for_public")
      [] category = "TLCellPvtGrp" -> for_individual(
            Table("TLCell", "TLCellOwner", "IsTLPvtMarker", "IsTLPvtMarker",
                  "IsTLPvtOwner", "IsTLPvtOwner", "IsTLPvtCell", "IsTLPvtCell",
                  "IsTLImpl", "IsTLMarker", "IsTLPvtAccess", "IsTLPvtAccess"),
            "for_private")

(* Faulty variants of the module functions: the private and the public *)
(* function are taken for each other.                                  *)
has_access_swapped(m, level) ==
    CASE level = "private" -> m.has_public_access
      [] level = "uniform" -> m.has_uniform_access
      [] level = "public" -> m.has_private_access

new_owner_swapped(m, level) ==
    CASE level = "private" -> m.new_public_owner
      [] level = "uniform" -> m.new_uniform_owner
      [] level = "public" -> m.new_private_owner

new_cell_swapped(m, level) ==
    CASE level = "private" -> m.new_public_cell
      [] level = "uniform" -> m.new_uniform_cell
      [] level = "public" -> m.new_private_cell

(* The module functions, selected by access level. *)
has_access(m, level) ==
    CASE level = "private" -> m.has_private_access
      [] level = "uniform" -> m.has_uniform_access
      [] level = "public" -> m.has_public_access

new_owner(m, level) ==
    CASE level = "private" -> m.new_private_owner
      [] level = "uniform" -> m.new_uniform_owner
      [] level = "public" -> m.new_public_owner

new_cell(m, level) ==
    CASE level = "private" -> m.new_private_cell
      [] level = "uniform" -> m.new_uniform_cell
      [] level = "public" -> m.new_public_cell

(* get_cell_impl() of a module: <Marker>::get_cell_impl(). *)
get_cell_impl(m) == Call(m.types[m.get_cell_impl].impls, "get_cell_impl")

(* ------------------------------------------------------------------ *)
(* impl_get_pvt / impl_get_pub / impl_get_uni (lib.rs 1174-1214):      *)
(* the Owner type whose new() the generated getter calls.              *)
(* ------------------------------------------------------------------ *)
impl_get_pvt(owner_path) == owner_path

impl_get_pub(owner_path) == owner_path

(* Faulty variant: the getter hands out the Owner type of one group,   *)
(* whatever Owner type it is asked for.                                *)
impl_get_uni_shared(owner_path) == <<"test_uni_grp", "UniOwner">>

impl_get_uni(owner_path) == owner_path

(* self.get_*_owner() with the expected Owner type `owner_path`. *)
get_owner(getter, owner_path) ==
    CASE getter = "get_private_owner" -> impl_get_pvt(owner_path)
      [] getter = "get_public_owner" -> impl_get_pub(owner_path)
      [] getter = "get_uniform_owner" -> impl_get_uni(owner_path)

Getters == {"get_private_owner", "get_public_owner", "get_uniform_owner"}

(* ------------------------------------------------------------------ *)
(* c_scp: @reorganize_body1 (lib.rs 480-718).  For each form of the    *)
(* operation details: the op_props handed to @handle_sources_right and *)
(* the access operation the arm emits after it ("none" for a bare      *)
(* cell).                                                              *)
(* ------------------------------------------------------------------ *)
Arm(scope, ref_type, muta, op, bind) ==
    [scope |-> scope, ref_type |-> ref_type, muta |-> muta,
     op |-> op, bind |-> bind]

Patterns ==
    {"mut cell", "cell", "* out mut", "& out mut", "out mut", "& out",
     "* out", "* mut", "out", "*", "& mut", "mut", "& name", "name"}

(* The tokens of the operation details as the caller writes them: the *)
(* cell expression is one `expr`, the name of a variable one `ident`.  *)
Tokens(pattern) ==
    CASE pattern = "mut cell" -> <<"mut", "expr">>
      [] pattern = "cell" -> <<"expr">>
      [] pattern = "* out mut" -> <<"expr", "=>", "*", "out", "mut", "ident">>
      [] pattern = "& out mut" -> <<"expr", "=>", "&", "out", "mut", "ident">>
      [] pattern = "out mut" -> <<"expr", "=>", "out", "mut", "ident">>
      [] pattern = "& out" -> <<"expr", "=>", "&", "out", "ident">>
      [] pattern = "* out" -> <<"expr", "=>", "*", "out", "ident">>
      [] pattern = "* mut" -> <<"expr", "=>", "*", "mut", "ident">>
      [] pattern = "out" -> <<"expr", "=>", "out", "ident">>
      [] pattern = "*" -> <<"expr", "=>", "*", "ident">>
      [] pattern = "& mut" -> <<"expr", "=>", "&", "mut", "ident">>
      [] pattern = "mut" -> <<"expr", "=>", "mut", "ident">>
      [] pattern = "& name" -> <<"expr", "=>", "&", "ident">>
      [] pattern = "name" -> <<"expr", "=>", "ident">>

(* A piece of a matcher takes a token: `$e:expr` an expression,         *)
(* `$n:ident` an identifier or keyword, anything else itself.           *)
Accepts(piece, token) ==
    CASE piece = "$expr" -> token = "expr"
      [] piece = "$ident" -> token \in {"ident", "out", "mut"}
      [] OTHER -> token = piece

(* macro_rules matching of a token sequence; `$(&)?` takes a `&` if one *)
(* is next.                                                             *)
RECURSIVE MatchArm(_, _)
MatchArm(matcher, tokens) ==
    IF matcher = <<>> THEN tokens = <<>>
    ELSE IF Head(matcher) = "$(&)?"
    THEN IF tokens # <<>> /\ Head(tokens) = "&"
         THEN MatchArm(Tail(matcher), Tail(tokens))
         ELSE MatchArm(Tail(matcher), tokens)
    ELSE /\ tokens # <<>>
         /\ Accepts(Head(matcher), Head(tokens))
         /\ MatchArm(Tail(matcher), Tail(tokens))

Matcher(matcher, props) == [matcher |-> matcher, props |-> props]

(* Faulty variant: a leading `&` is a marker of its own, and the arms   *)
(* for it borrow mutably and dereference.                               *)
ArmsAmpersand ==
    <<Matcher(<<"mut", "$expr">>,
              Arm("internal", "borrow", "ismut", "none", "none")),
      Matcher(<<"$expr">>,
              Arm("internal", "borrow", "immut", "none", "none")),
      Matcher(<<"$expr", "=>", "*", "out", "mut", "$ident">>,
              Arm("external", "deref", "ismut", "rw", "assign *")),
      Matcher(<<"$expr", "=>", "&", "out", "mut", "$ident">>,
              Arm("external", "hardborrow", "ismut", "rw", "assign &")),
      Matcher(<<"$expr", "=>", "out", "mut", "$ident">>,
              Arm("external", "borrow", "ismut", "rw", "assign")),
      Matcher(<<"$expr", "=>", "&", "out", "$ident">>,
              Arm("external", "hardborrow", "immut", "ro", "assign &")),
      Matcher(<<"$expr", "=>", "*", "out", "$ident">>,
              Arm("external", "deref", "immut", "ro", "assign *")),
      Matcher(<<"$expr", "=>", "*", "mut", "$ident">>,
              Arm("internal", "borrow", "ismut", "rw", "let mut *")),
      Matcher(<<"$expr", "=>", "out", "$ident">>,
              Arm("external", "borrow", "immut", "ro", "assign")),
      Matcher(<<"$expr", "=>", "*", "$ident">>,
              Arm("internal", "deref", "immut", "ro", "let *")),
      Matcher(<<"$expr", "=>", "&", "mut", "$ident">>,
              Arm("internal", "borrow", "ismut", "rw", "let mut *")),
      Matcher(<<"$expr", "=>", "mut", "$ident">>,
              Arm("internal", "borrow", "ismut", "rw", "let")),
      Matcher(<<"$expr", "=>", "&", "$ident">>,
              Arm("internal", "borrow", "ismut", "rw", "let")),
      Matcher(<<"$expr", "=>", "$ident">>,
              Arm("internal", "borrow", "immut", "ro", "let"))>>

(* The arms of @reorganize_body1 in the order of the source (lib.rs     *)
(* 480-718), each with the op_props it hands to @handle_sources_right,  *)
(* the access operation it emits and what it does with the result.      *)
Arms ==
    <<Matcher(<<"mut", "$expr">>,
              Arm("internal", "borrow", "ismut", "none", "none")),
      Matcher(<<"$expr">>,
              Arm("internal", "borrow", "immut", "none", "none")),
      Matcher(<<"$expr", "=>", "*", "out", "mut", "$ident">>,
              Arm("external", "deref", "ismut", "rw", "assign *")),
      Matcher(<<"$expr", "=>", "&", "out", "mut", "$ident">>,
              Arm("external", "hardborrow", "ismut", "rw", "assign &")),
      Matcher(<<"$expr", "=>", "out", "mut", "$ident">>,
              Arm("external", "borrow", "ismut", "rw", "assign")),
      Matcher(<<"$expr", "=>", "&", "out", "$ident">>,
              Arm("external", "hardborrow", "immut", "ro", "assign &")),
      Matcher(<<"$expr", "=>", "*", "out", "$ident">>,
              Arm("external", "deref", "immut", "ro", "assign *")),
      Matcher(<<"$expr", "=>", "*", "mut", "$ident">>,
              Arm("internal", "borrow", "ismut", "rw", "let mut *")),
      Matcher(<<"$expr", "=>", "out", "$ident">>,
              Arm("external", "borrow", "immut", "ro", "assign")),
      Matcher(<<"$expr", "=>", "*", "$ident">>,
              Arm("internal", "deref", "immut", "ro", "let *")),
      Matcher(<<"$expr", "=>", "$(&)?", "mut", "$ident">>,
              Arm("internal", "borrow", "ismut", "rw", "let")),
      Matcher(<<"$expr", "=>", "$(&)?", "$ident">>,
              Arm("internal", "borrow", "immut", "ro", "let"))>>

(* The arm each form of the operation details is expanded by: the     *)
(* first arm, in the order of the source, whose matcher takes the      *)
(* tokens.                                                             *)
FirstArm ==
    [pattern \in Patterns |->
        LET fits(i) == MatchArm(Arms[i].matcher, Tokens(pattern))
        IN CHOOSE i \in 1 .. Len(Arms) :
              fits(i) /\ \A j \in 1 .. (i - 1) : ~fits(j)]

(* @reorganize_body1: the properties the matching arm hands on. *)
reorganize_body1(pattern) == Arms[FirstArm[pattern]].props

(* Faulty variant: the Owner is always taken by mutable reference. *)
handle_op_props_mut(muta) == "&mut"

(* @handle_op_props (lib.rs 438-447): the reference taken to a freshly  *)
(* acquired Owner.                                                      *)
handle_op_props(muta) == IF muta = "ismut" THEN "&mut" ELSE "&"

(* ------------------------------------------------------------------ *)
(* The client program: state                                           *)
(* ------------------------------------------------------------------ *)
VARIABLES
    decls,      \* group name (in a cluster: module path) -> its category keyword
    mods,       \* group name (in a cluster: module path) -> the generated module
    registry,   \* the Markers that have a live Owner (qcell's bookkeeping)
    stack,      \* the lexical scopes that name an Owner, innermost last
    cells,      \* the Cells created so far and not dropped, as a bag
    mode,       \* "run", or "unwind" while a panic propagates
    last,       \* what the most recent call or block did
    blk,        \* the c_scp block being executed, statement by statement
    outer,      \* a variable of the calling code that a block may assign
    unit        \* a def_cells declaration and the items it has expanded to

vars == <<decls, mods, registry, stack, cells, mode, last, blk, outer, unit>>

(* The items stored in Cells.  The code never inspects an item: two    *)
(* distinct ones tell the content of one Cell from that of another.    *)
Values == {5, 6}

Declared == mods # <<>>

(* Owner and Cell types of a module are aliases of the qcell types. *)
OwnerTypes(m) ==
    {n \in DOMAIN m.types : m.types[n].base \in {"TCellOwner", "TLCellOwner"}}

CellTypes(m) ==
    {n \in DOMAIN m.types : m.types[n].base \in {"TCell", "TLCell"}}

(* The Owner types the program can name: <<group, type name>>. *)
OwnerPaths == UNION {{<<g, n>> : n \in OwnerTypes(mods[g])} : g \in DOMAIN mods}

(* Faulty variant: one Marker for all the types of a group. *)
MarkerOfGroup(path) == <<path[1], "Marker">>

(* The Marker type parameter of the type at `path` = <<group, name>>. *)
MarkerOf(path) == <<path[1], mods[path[1]].types[path[2]].marker>>

(* A scope that names an Owner.  `holder` is the position in the stack  *)
(* of the scope whose variable holds the Owner value itself: the scope's *)
(* own position when it owns the value, an outer one when it borrows.   *)
Frame(what, path, owned, ref, holder) ==
    [what |-> what, path |-> path, owned |-> owned, ref |-> ref,
     holder |-> holder]

Top == stack[Len(stack)]

Pop == SubSeq(stack, 1, Len(stack) - 1)

Result(op, arg, out, path, msg, val) ==
    [op |-> op, arg |-> arg, out |-> out, path |-> path, msg |-> msg,
     val |-> val]

NoPath == <<"", "">>

(* A variable of the generated block or of the calling code.  `kind`:   *)
(* "none" while it holds nothing, "value" for an item, "&" / "&mut" for *)
(* the reference an access operation returned, "&&" / "&&mut" for a     *)
(* reference to that reference.  `mut`: declared with `let mut`.  `val`: *)
(* the item a "value" holds.  `to`: the Cell a reference points into.   *)
Var(kind, mut, val, to) == [kind |-> kind, mut |-> mut, val |-> val, to |-> to]

NoVar == Var("none", FALSE, -1, NoPath)

NoCell == [path |-> NoPath, val |-> -1]

(* The code of no block. *)
NoCode ==
    [owner |-> [name |-> "", ref |-> "", init |-> ""],
     bind |-> [stmt |-> "none", op |-> "none", with |-> "", cast |-> ""],
     body |-> FALSE]

(* No c_scp block has been invoked yet. *)
NoBlock ==
    [pc |-> "idle", src |-> "", pattern |-> "", code |-> NoCode,
     cell |-> NoPath, entry |-> -1, owner |-> NoPath, via |-> "",
     ops |-> <<>>,
     x |-> NoVar, was |-> NoVar, writes |-> 0, trail |-> <<>>,
     exit |-> "none", depth |-> 0]

(* No declaration under expansion. *)
NoUnit == [decl |-> <<>>, items |-> <<>>]

(* ------------------------------------------------------------------ *)
(* The single-owner primitive the generated aliases stand for:         *)
(* qcell::TCellOwner / TLCellOwner new() and drop, TCell / TLCell      *)
(* new() and ro().                                                     *)
(* ------------------------------------------------------------------ *)
OwnerExistsMsg == <<"Illegal", "to", "create", "two", "owners", "for",
                    "one", "marker">>

OwnerNew(reg, marker) ==
    IF marker \in reg
    THEN [ok |-> FALSE, reg |-> reg]
    ELSE [ok |-> TRUE, reg |-> reg \cup {marker}]

OwnerDrop(reg, marker) == reg \ {marker}

CellNew(path, item) == [path |-> path, val |-> item]

ro(cell) == cell.val

(* Dropping the innermost scope: an Owner value it holds is dropped. *)
Release(frame) ==
    IF frame.owned THEN OwnerDrop(registry, MarkerOf(frame.path)) ELSE registry

(* Faulty variant of the acquisition: an Owner is bound without asking *)
(* the primitive whether the Marker is free.                           *)
AcquireUnchecked(what, path, ref, op, arg, val) ==
    /\ Len(stack) < MaxDepth
    /\ registry' = registry \cup {MarkerOf(path)}
    /\ stack' = Append(stack, Frame(what, path, TRUE, ref, Len(stack) + 1))
    /\ mode' = "run"
    /\ last' = Result(op, arg, IF what = "let" THEN "owner" ELSE "scope",
                      path, <<>>, val)

(* <path>::new() bound in a new scope: the Owner, or the primitive's panic. *)
Acquire(what, path, ref, op, arg, val) ==
    LET r == OwnerNew(registry, MarkerOf(path)) IN
    IF r.ok
    THEN /\ Len(stack) < MaxDepth
         /\ registry' = r.reg
         /\ stack' = Append(stack, Frame(what, path, TRUE, ref, Len(stack) + 1))
         /\ mode' = "run"
         /\ last' = Result(op, arg, IF what = "let" THEN "owner" ELSE "scope",
                           path, <<>>, val)
    ELSE /\ mode' = "unwind"
         /\ last' = Result(op, arg, "panic", path, OwnerExistsMsg, -1)
         /\ UNCHANGED <<registry, stack>>

(* ------------------------------------------------------------------ *)
(* Actions                                                             *)
(* ------------------------------------------------------------------ *)
Init ==
    /\ decls = <<>>
    /\ mods = <<>>
    /\ registry = {}
    /\ stack = <<>>
    /\ cells = EmptyBag
    /\ mode = "run"
    /\ last = Result("init", <<"", "">>, "none", NoPath, <<>>, -1)
    /\ blk = NoBlock
    /\ outer = NoVar
    /\ unit = NoUnit

(* def_cells! { [mod] name: category; ... } for each of `names`          *)
(* (line splitter and @line, lib.rs 2488-2507, 2315-2450)               *)
DefCells(names, category) ==
    /\ mods = <<>>
    /\ decls' = [g \in names |-> category]
    /\ mods' = [g \in names |-> line(category)]
    /\ last' = Result("def_cells", <<category, "">>, "none", NoPath, <<>>, -1)
    /\ UNCHANGED <<registry, stack, cells, mode>>

(* let o = g::new_<level>_owner(); *)
NewOwner(g, level) ==
    /\ Declared
    /\ mode = "run"
    /\ LET acc == new_owner(mods[g], level) IN
       IF acc.kind = "panic"
       THEN /\ mode' = "unwind"
            /\ last' = Result("new_owner", <<g, level>>, "panic", NoPath,
                              acc.msg, -1)
            /\ UNCHANGED <<registry, stack>>
       ELSE Acquire("let", <<g, acc.ty>>, "own", "new_owner", <<g, level>>, -1)
    /\ UNCHANGED <<decls, mods, cells>>

(* g::new_<level>_cell(item) *)
NewCell(g, level, item) ==
    /\ Declared
    /\ mode = "run"
    /\ LET acc == new_cell(mods[g], level) IN
       IF acc.kind = "panic"
       THEN /\ mode' = "unwind"
            /\ last' = Result("new_cell", <<g, level>>, "panic", NoPath,
                              acc.msg, -1)
            /\ UNCHANGED cells
       ELSE /\ BagCardinality(cells) < MaxCells
            /\ cells' = cells (+) SetToBag({CellNew(<<g, acc.ty>>, item)})
            /\ last' = Result("new_cell", <<g, level>>, "cell", <<g, acc.ty>>,
                              <<>>, item)
            /\ UNCHANGED mode
    /\ UNCHANGED <<decls, mods, registry, stack>>

(* let o = self.get_*_owner(); with impl_get_*!(Struct => path) *)
GetOwner(getter, path) ==
    /\ Declared
    /\ mode = "run"
    /\ Acquire("let", get_owner(getter, path), "own", "get_owner",
               <<getter, "">>, -1)
    /\ UNCHANGED <<decls, mods, cells>>

(* The value the block's access operation yields ("none" arms yield nothing). *)
Access(arm, cell) == IF arm.op = "none" THEN -1 ELSE ro(cell)

(* cell.ro(owner) / cell.rw(owner) type-checks only for the Owner of the *)
(* Cell's own Marker.                                                    *)
Matches(path, cell) == MarkerOf(path) = MarkerOf(cell.path)

(* c_scp! { use path::to::Owner => ( cell [=> pattern] ) { ... } }       *)
(* @handle_owner_source @from_path (lib.rs 448-453, 848-881)             *)
ScpPath(path, cell, pattern) ==
    /\ Declared
    /\ mode = "run"
    /\ BagIn(cell, cells)
    /\ LET arm == reorganize_body1(pattern) IN
       /\ arm.op # "none" => Matches(path, cell)
       /\ Acquire("scp", path, handle_op_props(arm.muta), "c_scp",
                  <<"from_path", "">>, Access(arm, cell))
    /\ UNCHANGED <<decls, mods, cells>>

(* c_scp! { use _ => ... }: @from_auto (lib.rs 454-459, 720-751) *)
ScpAuto(cell, pattern) ==
    /\ Declared
    /\ mode = "run"
    /\ BagIn(cell, cells)
    /\ LET arm == reorganize_body1(pattern)
           bridge == mods[cell.path[1]].bridges[cell.path[2]]
           path == <<cell.path[1], bridge.get_new_matching_owner>>
       IN
       /\ arm.op # "none" => Matches(path, cell)
       /\ Acquire("scp", path, handle_op_props(arm.muta), "c_scp",
                  <<"from_auto", "">>, Access(arm, cell))
    /\ UNCHANGED <<decls, mods, cells>>

(* One `impl Get*Owner<T> for Struct`, as impl_get_pvt / impl_get_pub / *)
(* impl_get_uni write it (lib.rs 1174-1214).                            *)
Impl(getter, T) == [getter |-> getter, T |-> T]

(* The implementations of the enclosing object: every getter trait for  *)
(* every Owner type declared, as ExampleStruct and MyStruct implement    *)
(* several of them side by side (lib.rs 3343-3371, 4308-4316).           *)
SelfImpls == {Impl(getter, T) : getter \in Getters, T \in OwnerPaths}

(* Faulty variant: the implementation is picked by the method name only. *)
ResolveByName(impls, getter, T) == {i \in impls : i.getter = getter}

(* Trait resolution of `src.get_*_owner()` where the bridge expects the  *)
(* return type T: the implementation of that getter's trait for T        *)
(* (lib.rs 1131, 1137, 1143, 1163-1172).                                  *)
Resolve(impls, getter, T) == {i \in impls : i.getter = getter /\ i.T = T}

(* c_scp! { use [self] => ... }: @from_self (lib.rs 460-465, 816-847) *)
ScpSelf(cell, pattern) ==
    /\ Declared
    /\ mode = "run"
    /\ BagIn(cell, cells)
    /\ LET arm == reorganize_body1(pattern)
           bridge == mods[cell.path[1]].bridges[cell.path[2]]
       IN
       \E impl \in Resolve(SelfImpls, bridge.get_matching_owner_from,
                            <<cell.path[1], bridge.OwnerType>>) :
          LET path == get_owner(impl.getter, impl.T) IN
          /\ arm.op # "none" => Matches(path, cell)
          /\ Acquire("scp", path, handle_op_props(arm.muta), "c_scp",
                     <<"from_self", impl.getter>>, Access(arm, cell))
    /\ UNCHANGED <<decls, mods, cells>>

(* Faulty variant of the borrowed source: the block takes the Owner    *)
(* for its own, as the other sources do.                               *)
handle_sources_right_owning(o, ref) ==
    Frame("scp", o.path, TRUE, ref, Len(stack) + 1)

(* The scope a borrowed source opens: `let name = & src` / `& mut src`, *)
(* a reference to the Owner that scope `o` names (lib.rs 466-471).       *)
handle_sources_right_borrowed(o, ref) ==
    Frame("scp", o.path, FALSE, ref, o.holder)

(* c_scp! { use &o => ... } / { use &mut o => ... } where o is the Owner  *)
(* named by scope i of the calling code: @from_scp_src_immut / _ismut     *)
(* (lib.rs 466-471, 752-815)                                              *)
ScpBorrow(i, ref, cell, pattern) ==
    /\ Declared
    /\ mode = "run"
    /\ BagIn(cell, cells)
    /\ i \in 1 .. Len(stack)
    /\ Len(stack) < MaxDepth
    /\ LET arm == reorganize_body1(pattern)
           o == stack[i]
       IN
       /\ ref = "&mut" => o.what = "let"
       /\ arm.op # "none" => Matches(o.path, cell)
       /\ arm.op = "rw" => ref = "&mut"
       /\ stack' = Append(stack, handle_sources_right_borrowed(o, ref))
       /\ last' = Result("c_scp",
                         <<IF ref = "&mut" THEN "from_scp_src_ismut"
                                           ELSE "from_scp_src_immut", "">>,
                         "scope", o.path, <<>>, Access(arm, cell))
    /\ UNCHANGED <<decls, mods, registry, cells, mode>>

(* Faulty variant of the closing brace: the Owner of the block is      *)
(* never dropped.                                                      *)
ScpExitLeaks ==
    /\ mode = "run"
    /\ stack # <<>>
    /\ Top.what = "scp"
    /\ stack' = Pop
    /\ last' = Result("exit", <<IF Top.owned THEN "owned" ELSE "borrowed", "">>,
                      "none", Top.path, <<>>, -1)
    /\ UNCHANGED <<decls, mods, registry, cells, mode>>

(* The closing brace of a c_scp block (lib.rs 725-734 and the like):    *)
(* the block's `let` binding goes out of scope.                         *)
ScpExit ==
    /\ mode = "run"
    /\ stack # <<>>
    /\ Top.what = "scp"
    /\ stack' = Pop
    /\ registry' = Release(Top)
    /\ last' = Result("exit", <<IF Top.owned THEN "owned" ELSE "borrowed", "">>,
                      "none", Top.path, <<>>, -1)
    /\ UNCHANGED <<decls, mods, cells, mode>>

(* The end of the scope of a variable that holds an Owner. *)
DropOwner ==
    /\ mode = "run"
    /\ stack # <<>>
    /\ Top.what = "let"
    /\ stack' = Pop
    /\ registry' = Release(Top)
    /\ last' = Result("drop", <<"", "">>, "none", Top.path, <<>>, -1)
    /\ UNCHANGED <<decls, mods, cells, mode>>

(* Faulty variant: unwinding leaves the scope without dropping. *)
UnwindLeaks ==
    /\ mode = "unwind"
    /\ stack # <<>>
    /\ stack' = Pop
    /\ UNCHANGED <<decls, mods, registry, cells, mode, last>>

(* A panic leaves the innermost scope, dropping what it holds. *)
Unwind ==
    /\ mode = "unwind"
    /\ stack # <<>>
    /\ stack' = Pop
    /\ registry' = Release(Top)
    /\ UNCHANGED <<decls, mods, cells, mode, last>>

(* The panic is caught (catch_unwind, or the test harness). *)
Catch ==
    /\ mode = "unwind"
    /\ mode' = "run"
    /\ UNCHANGED <<decls, mods, registry, stack, cells, last>>

(* The program of the main specification: one group, declared with any  *)
(* of the eight categories; the blocks it opens use a bare cell and the  *)
(* internal borrows.                                                     *)
Groups == {"grp"}

SpecPatterns == {"cell", "name", "mut"}

Next ==
    \/ \E category \in Decls :
          DefCells(Groups, category) /\ UNCHANGED <<blk, outer, unit>>
    \/ \E g \in DOMAIN mods, level \in Levels :
          NewOwner(g, level) /\ UNCHANGED <<blk, outer, unit>>
    \/ \E g \in DOMAIN mods, level \in Levels, item \in Values :
          NewCell(g, level, item) /\ UNCHANGED <<blk, outer, unit>>
    \/ \E getter \in Getters, path \in OwnerPaths :
          GetOwner(getter, path) /\ UNCHANGED <<blk, outer, unit>>
    \/ \E path \in OwnerPaths, cell \in BagToSet(cells),
          pattern \in SpecPatterns :
          ScpPath(path, cell, pattern) /\ UNCHANGED <<blk, outer, unit>>
    \/ \E cell \in BagToSet(cells), pattern \in SpecPatterns :
          ScpAuto(cell, pattern) /\ UNCHANGED <<blk, outer, unit>>
    \/ \E cell \in BagToSet(cells), pattern \in SpecPatterns :
          ScpSelf(cell, pattern) /\ UNCHANGED <<blk, outer, unit>>
    \/ \E i \in 1 .. MaxDepth, ref \in {"&", "&mut"},
          cell \in BagToSet(cells), pattern \in SpecPatterns :
          ScpBorrow(i, ref, cell, pattern) /\ UNCHANGED <<blk, outer, unit>>
    \/ ScpExit /\ UNCHANGED <<blk, outer, unit>>
    \/ DropOwner /\ UNCHANGED <<blk, outer, unit>>
    \/ Unwind /\ UNCHANGED <<blk, outer, unit>>
    \/ Catch /\ UNCHANGED <<blk, outer, unit>>

Spec == Init /\ [][Next]_vars

(* ------------------------------------------------------------------ *)
(* What a declaration says, read off its category keyword              *)
(* ------------------------------------------------------------------ *)
DeclaredKind(category) ==
    IF category \in {"TCellUniGrp", "TCellAccGrp", "TCellPubGrp", "TCellPvtGrp"}
    THEN "T" ELSE "TL"

DeclaredCategory(category) ==
    CASE category \in {"TCellUniGrp", "TLCellUniGrp"} -> "Uniform"
      [] category \in {"TCellPvtGrp", "TLCellPvtGrp"} -> "Private"
      [] category \in {"TCellPubGrp", "TLCellPubGrp"} -> "Public"
      [] category \in {"TCellAccGrp", "TLCellAccGrp"} -> "Access"

(* The capability triple (private, uniform, public) of each category. *)
CategoryTriple(cat) ==
    CASE cat = "Uniform" -> <<FALSE, TRUE, FALSE>>
      [] cat = "Private" -> <<TRUE, FALSE, FALSE>>
      [] cat = "Public" -> <<FALSE, FALSE, TRUE>>
      [] cat = "Access" -> <<TRUE, FALSE, TRUE>>

(* The sub-triples a category generates, by access level. *)
CategoryLevels(cat) ==
    CASE cat = "Uniform" -> {"Uniform"}
      [] cat = "Private" -> {"Private"}
      [] cat = "Public" -> {"Public"}
      [] cat = "Access" -> {"Private", "Public"}

(* The access level an accessor name asks for. *)
LevelName(level) ==
    CASE level = "private" -> "Private"
      [] level = "uniform" -> "Uniform"
      [] level = "public" -> "Public"

(* The role of a generated type, from what it aliases. *)
RoleOfBase(base) ==
    CASE base = "struct" -> "Marker"
      [] base \in {"TCellOwner", "TLCellOwner"} -> "Owner"
      [] base \in {"TCell", "TLCell"} -> "Cell"

(* The kind of a generated type, from what it aliases (a Marker is a    *)
(* plain struct and aliases nothing).                                   *)
KindOfBase(base) ==
    CASE base \in {"TCell", "TCellOwner"} -> {"T"}
      [] base \in {"TLCell", "TLCellOwner"} -> {"TL"}
      [] OTHER -> {"T", "TL"}

(* The sub-triple a generated type belongs to, from its name. *)
LevelOfName(n) ==
    CASE n \in {"UniMarker", "UniOwner", "UniCell"} -> "Uniform"
      [] n \in {"PvtMarker", "PvtOwner", "PvtCell"} -> "Private"
      [] n \in {"PubMarker", "PubOwner", "PubCell"} -> "Public"

(* The three introspection results of the type at path <<g, n>>:       *)
(* static methods, and the instance-level ones.                         *)
Introspection(g, n) ==
    LET impls == mods[g].types[n].impls IN
    <<Call(impls, "get_cell_impl"), Call(impls, "get_cell_role"),
      Call(impls, "get_access_level")>>

SelfIntrospection(g, n) ==
    LET impls == mods[g].types[n].impls IN
    <<Call(impls, "get_self_cell_impl"), Call(impls, "get_self_cell_role"),
      Call(impls, "get_self_access_level")>>

(* The type at <<g, n>> is the `role` type of the sub-triple `lvl` of a *)
(* group declared with `category`, and says so.                         *)
IsTheType(g, n, role, lvl) ==
    /\ n \in DOMAIN mods[g].types
    /\ RoleOfBase(mods[g].types[n].base) = role
    /\ LevelOfName(n) = lvl
    /\ Introspection(g, n) = <<{DeclaredKind(decls[g])}, {role}, {lvl}>>
    /\ SelfIntrospection(g, n) = Introspection(g, n)

(* ------------------------------------------------------------------ *)
(* C1: for each of the 8 declarations the generated module's           *)
(* (has_private_access, has_uniform_access, has_public_access) is the  *)
(* triple of its category: Uniform (F,T,F), Private (T,F,F), Public    *)
(* (F,F,T), Access (T,F,T); and get_cell_impl() is the declared kind.  *)
(* ------------------------------------------------------------------ *)
C1_CapabilityTriple ==
    \A g \in DOMAIN mods :
        /\ <<has_access(mods[g], "private"), has_access(mods[g], "uniform"),
             has_access(mods[g], "public")>>
              = CategoryTriple(DeclaredCategory(decls[g]))
        /\ get_cell_impl(mods[g]) = {DeclaredKind(decls[g])}

(* A thread-local Access group is declared: two levels, kind TL. *)
C1_Witness ==
    /\ Declared
    /\ decls["grp"] = "TLCellAccGrp"
    /\ has_access(mods["grp"], "private")
    /\ has_access(mods["grp"], "public")
    /\ ~has_access(mods["grp"], "uniform")
    /\ get_cell_impl(mods["grp"]) = {"TL"}

(* ------------------------------------------------------------------ *)
(* C2: every generated Marker, Owner and Cell type, in all 8           *)
(* declarations and both sub-triples of an Access group, reports the   *)
(* declared kind, its own role and its own triple's access level; the  *)
(* instance-level accessors of every Owner and Cell value return the   *)
(* same as the static ones.                                            *)
(* ------------------------------------------------------------------ *)
C2_IntrospectionMatchesDeclaration ==
    /\ \A g \in DOMAIN mods :
          /\ {LevelOfName(n) : n \in DOMAIN mods[g].types}
                = CategoryLevels(DeclaredCategory(decls[g]))
          /\ \A lvl \in CategoryLevels(DeclaredCategory(decls[g])) :
                \A role \in CellRoles :
                    \E n \in DOMAIN mods[g].types : IsTheType(g, n, role, lvl)
          /\ \A n \in DOMAIN mods[g].types :
                /\ IsTheType(g, n, RoleOfBase(mods[g].types[n].base),
                             LevelOfName(n))
                /\ DeclaredKind(decls[g]) \in KindOfBase(mods[g].types[n].base)
    /\ \A i \in 1 .. Len(stack) :
          LET ty == stack[i].path IN
          SelfIntrospection(ty[1], ty[2])
             = <<{DeclaredKind(decls[ty[1]])}, {"Owner"}, {LevelOfName(ty[2])}>>
    /\ \A cell \in BagToSet(cells) :
          LET ty == cell.path IN
          SelfIntrospection(ty[1], ty[2])
             = <<{DeclaredKind(decls[ty[1]])}, {"Cell"}, {LevelOfName(ty[2])}>>

(* A thread-local Access group with a live public Owner and a private  *)
(* Cell: values of both sub-triples exist.                             *)
C2_Witness ==
    /\ Declared
    /\ decls["grp"] = "TLCellAccGrp"
    /\ \E i \in 1 .. Len(stack) : stack[i].path = <<"grp", "PubOwner">>
    /\ \E cell \in BagToSet(cells) : cell.path = <<"grp", "PvtCell">>

(* The Owners that are live, by the scope that holds each. *)
LiveOwners == {i \in 1 .. Len(stack) : stack[i].owned}

Owned(marker) == \E i \in LiveOwners : MarkerOf(stack[i].path) = marker

(* The messages of the capability failures. *)
CapabilityMsgs == {UnavailableMsg(l, w) : l \in Levels, w \in {"owner", "cell"}}

C4_CellAccessorContract ==
    /\ \A g \in DOMAIN mods, level \in Levels :
          LET acc == new_cell(mods[g], level) IN
          /\ acc.kind \in {"new", "panic"}
          /\ acc.kind = "new" <=> has_access(mods[g], level)
          /\ acc.kind = "new" => IsTheType(g, acc.ty, "Cell", LevelName(level))
    /\ last.op = "new_cell" =>
          LET g == last.arg[1]
              level == last.arg[2]
          IN
          /\ last.out = "cell" <=> has_access(mods[g], level)
          /\ last.out # "cell" => last.out = "panic"
          /\ last.out = "cell" =>
                /\ last.path[1] = g
                /\ IsTheType(g, last.path[2], "Cell", LevelName(level))
                /\ last.val \in Values
                /\ \E cell \in BagToSet(cells) :
                      cell.path = last.path /\ ro(cell) = last.val
    /\ (last.op = "c_scp" /\ last.out = "scope" /\ last.val # -1) =>
          \E cell \in BagToSet(cells) :
              Matches(last.path, cell) /\ ro(cell) = last.val
    /\ \A cell \in BagToSet(cells) :
          /\ cell.val \in Values
          /\ cell.path[2] \in CellTypes(mods[cell.path[1]])

(* Two Cells of one triple exist, created with different values, and  *)
(* a read-only access has yielded the value of one of them.            *)
C4_Witness ==
    /\ last.op = "c_scp"
    /\ last.out = "scope"
    /\ last.val = 6
    /\ \E n \in CellTypes(mods["grp"]) :
          /\ BagIn(CellNew(<<"grp", n>>, 6), cells)
          /\ BagIn(CellNew(<<"grp", n>>, 5), cells)
          /\ Matches(last.path, CellNew(<<"grp", n>>, 6))

(* ------------------------------------------------------------------ *)
(* C5: each unsupported accessor fails with the message that names the *)
(* access level that was requested, with the owner wording for an      *)
(* owner accessor and the cell wording for a cell accessor.            *)
(* ------------------------------------------------------------------ *)
C5_MessageNamesRequestedLevel ==
    /\ (last.op = "new_owner" /\ last.out = "panic"
            /\ ~has_access(mods[last.arg[1]], last.arg[2])) =>
          last.msg = UnavailableMsg(last.arg[2], "owner")
    /\ (last.op = "new_cell" /\ last.out = "panic"
            /\ ~has_access(mods[last.arg[1]], last.arg[2])) =>
          last.msg = UnavailableMsg(last.arg[2], "cell")

(* new_private_cell() of a Uniform group has failed, with the message  *)
(* of the uniform cell.                                                *)
C5_Divergence ==
    /\ last.op = "new_cell"
    /\ last.arg = <<"grp", "private">>
    /\ DeclaredCategory(decls["grp"]) = "Uniform"
    /\ last.out = "panic"
    /\ last.msg = uni_cell_unavailable_msg
    /\ last.msg # pvt_cell_unavailable_msg

(* ------------------------------------------------------------------ *)
(* C6: an unsupported accessor fails every time it is called, in every *)
(* reachable state, and has no side effect: no Owner or Cell is        *)
(* constructed, no Marker becomes owned, and the state that decides    *)
(* the outcome of every later call or block is left as it was.         *)
(* ------------------------------------------------------------------ *)
C6_UnsupportedFailsWithoutEffect ==
    [][\A g \in DOMAIN mods, level \in Levels :
          ~has_access(mods[g], level) =>
             /\ NewOwner(g, level) =>
                   /\ mode' = "unwind"
                   /\ last'.out = "panic"
                   /\ last'.msg \in CapabilityMsgs
                   /\ UNCHANGED <<decls, mods, registry, stack, cells>>
             /\ \A item \in Values :
                   NewCell(g, level, item) =>
                      /\ mode' = "unwind"
                      /\ last'.out = "panic"
                      /\ last'.msg \in CapabilityMsgs
                      /\ UNCHANGED <<decls, mods, registry, stack, cells>>
      ]_vars

(* new_uniform_owner() of a group without uniform access has just      *)
(* failed, with an Owner live and a Cell created before the call.      *)
C6_Witness ==
    /\ mode = "unwind"
    /\ last.op = "new_owner"
    /\ last.arg = <<"grp", "uniform">>
    /\ ~has_access(mods["grp"], "uniform")
    /\ last.out = "panic"
    /\ LiveOwners # {}
    /\ registry # {}
    /\ cells # EmptyBag

(* ------------------------------------------------------------------ *)
(* C7, as stated: a supported accessor always succeeds, in every state *)
(* reachable by accessor calls and scope-access blocks.                *)
(* ------------------------------------------------------------------ *)
C7_SupportedAlwaysSucceeds ==
    (last.op \in {"new_owner", "new_cell"}
        /\ has_access(mods[last.arg[1]], last.arg[2])) =>
      last.out \in {"owner", "cell"}

(* ------------------------------------------------------------------ *)
(* C7, amended: a supported new_L_cell(v) always succeeds; a supported *)
(* new_L_owner() succeeds in every state in which no Owner of the same *)
(* Marker is live, and ends in the panic of the single-owner primitive *)
(* in the others; the value returned reports the kind, role and access *)
(* level of its declared capability.                                   *)
(* ------------------------------------------------------------------ *)
C7_SupportedSucceedsUnlessOwned ==
    [][\A g \in DOMAIN mods, level \in Levels :
          has_access(mods[g], level) =>
             /\ NewOwner(g, level) =>
                   IF Owned(MarkerOf(<<g, new_owner(mods[g], level).ty>>))
                   THEN /\ last'.out = "panic"
                        /\ last'.msg = OwnerExistsMsg
                        /\ UNCHANGED <<registry, stack, cells>>
                   ELSE /\ last'.out = "owner"
                        /\ mode' = "run"
                        /\ stack' = Append(stack, stack'[Len(stack')])
                        /\ stack'[Len(stack')].owned
                        /\ stack'[Len(stack')].path = last'.path
                        /\ last'.path[1] = g
                        /\ IsTheType(g, last'.path[2], "Owner", LevelName(level))
             /\ \A item \in Values :
                   NewCell(g, level, item) =>
                      /\ last'.out = "cell"
                      /\ mode' = "run"
                      /\ last'.path[1] = g
                      /\ IsTheType(g, last'.path[2], "Cell", LevelName(level))
                      /\ BagIn(CellNew(last'.path, item), cells')
      ]_vars

(* new_private_owner() of an Access group has succeeded while the      *)
(* Owner of the public sub-triple is live.                             *)
C7_Witness ==
    /\ last.op = "new_owner"
    /\ last.arg = <<"grp", "private">>
    /\ last.out = "owner"
    /\ Len(stack) = 2
    /\ stack[1].owned
    /\ stack[1].path = <<"grp", "PubOwner">>
    /\ stack[2].owned
    /\ stack[2].path = <<"grp", "PvtOwner">>

(* ------------------------------------------------------------------ *)
(* C8: in every reachable state at most one live Owner exists per      *)
(* Marker, whatever the sequence and nesting of accessor calls,        *)
(* Get*Owner calls and c_scp blocks: the Markers the primitive holds   *)
(* are exactly those of the live Owners, one each, and an acquisition  *)
(* that has failed in the primitive has bound no Owner.                *)
(* ------------------------------------------------------------------ *)
C8_SingleLiveOwner ==
    /\ \A i, j \in LiveOwners :
          MarkerOf(stack[i].path) = MarkerOf(stack[j].path) => i = j
    /\ registry = {MarkerOf(stack[i].path) : i \in LiveOwners}
    /\ \A i \in 1 .. Len(stack) :
          /\ stack[i].holder \in LiveOwners
          /\ stack[i].holder <= i
          /\ stack[i].owned <=> stack[i].holder = i
          /\ MarkerOf(stack[stack[i].holder].path) = MarkerOf(stack[i].path)
    /\ last.msg = OwnerExistsMsg =>
          /\ last.out = "panic"
          /\ last.op \in {"new_owner", "get_owner", "c_scp"}
          /\ last.op = "c_scp" =>
                last.arg[1] \in {"from_path", "from_auto", "from_self"}

(* A c_scp block with an auto-inferred owner source, opened inside a   *)
(* scope that holds the Owner of the Cell's Marker, has ended in the   *)
(* panic of the primitive; the Owner of the outer scope is the only    *)
(* one.                                                                *)
C8_Witness ==
    /\ mode = "unwind"
    /\ last.op = "c_scp"
    /\ last.arg[1] = "from_auto"
    /\ last.out = "panic"
    /\ last.msg = OwnerExistsMsg
    /\ Cardinality(LiveOwners) = 1
    /\ Owned(MarkerOf(last.path))

(* ------------------------------------------------------------------ *)
(* C9: with an explicit-type, auto-inferred or self-lookup owner       *)
(* source, the Owner a c_scp block acquires is live for the whole      *)
(* block and released when the block ends, so that a block that        *)
(* follows immediately and acquires a fresh Owner for the same Marker  *)
(* succeeds, any number of times.                                      *)
(* ------------------------------------------------------------------ *)
C9_ReleasedAtBlockEnd ==
    [][/\ \A i \in 1 .. Len(stack) :
             (stack[i].what = "scp" /\ stack[i].owned) =>
                MarkerOf(stack[i].path) \in registry
       /\ (ScpExit /\ Top.owned) =>
             /\ MarkerOf(Top.path) \notin registry'
             /\ registry' = registry \ {MarkerOf(Top.path)}
             /\ OwnerNew(registry', MarkerOf(Top.path)).ok
       /\ (last.op = "exit" /\ last.arg[1] = "owned") =>
             /\ \A path \in OwnerPaths, cell \in BagToSet(cells),
                   pattern \in SpecPatterns :
                   (MarkerOf(path) = MarkerOf(last.path)
                       /\ ScpPath(path, cell, pattern)) =>
                      last'.out = "scope" /\ stack'[Len(stack')].owned
             /\ \A cell \in BagToSet(cells), pattern \in SpecPatterns :
                   (Matches(last.path, cell)
                       /\ (ScpAuto(cell, pattern) \/ ScpSelf(cell, pattern))) =>
                      last'.out = "scope" /\ stack'[Len(stack')].owned
      ]_vars

(* A block that acquired its own Owner has ended inside a scope that   *)
(* holds another Owner: its Marker is free again, the other is not.    *)
C9_Witness ==
    /\ last.op = "exit"
    /\ last.arg[1] = "owned"
    /\ ~Owned(MarkerOf(last.path))
    /\ MarkerOf(last.path) \notin registry
    /\ Len(stack) = 1
    /\ registry # {}

(* ------------------------------------------------------------------ *)
(* C10: with a borrowed owner source the block constructs no new Owner *)
(* and does not release `o`: the Owner used is the Owner `o` of the    *)
(* calling scope, and `o` is still live and usable after the block, so *)
(* that consecutive borrowed blocks use the same Owner.                *)
(* ------------------------------------------------------------------ *)
C10_BorrowedOwnerKept ==
    /\ \A i \in 1 .. Len(stack) :
          ~stack[i].owned =>
             /\ stack[i].what = "scp"
             /\ stack[i].holder < i
             /\ stack[stack[i].holder].owned
             /\ stack[stack[i].holder].path = stack[i].path
             /\ MarkerOf(stack[i].path) \in registry
    /\ (last.op = "c_scp"
           /\ last.arg[1] \in {"from_scp_src_immut", "from_scp_src_ismut"}) =>
          /\ last.out = "scope"
          /\ mode = "run"
          /\ stack # <<>>
          /\ ~Top.owned
          /\ Top.path = last.path
          /\ Cardinality(registry) = Cardinality(LiveOwners)
    /\ (last.op = "exit" /\ last.arg[1] = "borrowed") =>
          /\ \E i \in LiveOwners : stack[i].path = last.path
          /\ MarkerOf(last.path) \in registry
          /\ Cardinality(registry) = Cardinality(LiveOwners)

(* A block that borrowed the Owner `o` has ended: `o` is still the     *)
(* live Owner of its Marker, in the scope that declared it.            *)
C10_Witness ==
    /\ last.op = "exit"
    /\ last.arg[1] = "borrowed"
    /\ Len(stack) = 1
    /\ stack[1].what = "let"
    /\ stack[1].owned
    /\ stack[1].path = last.path
    /\ registry = {MarkerOf(last.path)}

(* ------------------------------------------------------------------ *)
(* c_scp: the block one invocation expands to                          *)
(* ------------------------------------------------------------------ *)
MaxStmts == 2

(* The owner sources the top-level arms hand down (lib.rs 720-881). *)
OwnerSources ==
    {"from_path", "from_auto", "from_self",
     "from_scp_src_immut", "from_scp_src_ismut"}

(* `use B => ...` names the Owner __scope_owner, `let A = B => ...`     *)
(* names it A (lib.rs 720-881).                                        *)
OwnerNames == {"__scope_owner", "my_owner"}

(* @handle_owner_source (lib.rs 448-465), and the expression of a       *)
(* borrowed source (466-471): what initialises the owner name.          *)
handle_owner_source(src) ==
    CASE src = "from_path" -> "<path>::new()"
      [] src = "from_auto" -> "cell.get_new_matching_owner()"
      [] src = "from_self" -> "cell.get_matching_owner_from(self)"
      [] OTHER -> "owner_src"

(* Faulty variant: the op_props decide the reference of every source. *)
handle_sources_right_coerced(src, op_props) == handle_op_props(op_props.muta)

(* @handle_sources_right (lib.rs 466-477): the reference the owner name *)
(* is bound to.  The two borrowed arms do not look at the op_props.     *)
handle_sources_right(src, op_props) ==
    CASE src = "from_scp_src_immut" -> "&"
      [] src = "from_scp_src_ismut" -> "&mut"
      [] OTHER -> handle_op_props(op_props.muta)

(* The type a result is coerced to: none, or `as u8` / `: u8`. *)
Casts == {"", "u8"}

(* Rust's `as u8` of an integer. *)
Cast(item, cast) == IF cast = "u8" THEN item % 256 ELSE item

(* Faulty variant: every arm emits the read-only access. *)
BlockReadOnly(src, name, pattern, cast, body) ==
    LET arm == reorganize_body1(pattern) IN
    [owner |-> [name |-> name,
                ref |-> handle_sources_right(src, arm),
                init |-> handle_owner_source(src)],
     bind |-> [stmt |-> arm.bind,
               op |-> IF arm.op = "none" THEN "none" ELSE "ro",
               with |-> IF arm.op = "none" THEN "" ELSE name,
               cast |-> IF arm.bind \in {"let *", "let mut *", "assign *",
                                         "assign", "assign &"}
                        THEN cast ELSE ""],
     body |-> body]

(* The generated block (lib.rs 480-881): the `let` of the owner name,   *)
(* the statement of the arm, and the caller's statement block if given. *)
Block(src, name, pattern, cast, body) ==
    LET arm == reorganize_body1(pattern) IN
    [owner |-> [name |-> name,
                ref |-> handle_sources_right(src, arm),
                init |-> handle_owner_source(src)],
     bind |-> [stmt |-> arm.bind,
               op |-> arm.op,
               with |-> IF arm.op = "none" THEN "" ELSE name,
               cast |-> IF arm.bind \in {"let *", "let mut *", "assign *",
                                         "assign", "assign &"}
                        THEN cast ELSE ""],
     body |-> body]

(* ------------------------------------------------------------------ *)
(* The generated block, executed statement by statement                *)
(* ------------------------------------------------------------------ *)
(* qcell's rw(): the item behind the mutable reference it returns, and  *)
(* a write through that reference.                                      *)
rw(cell) == cell.val

CellSet(cell, item) == [cell EXCEPT !.val = item]

(* The Cell of type `path` (the program keeps one of each type). *)
CellAt(path) == CHOOSE c \in BagToSet(cells) : c.path = path

(* The item a variable holds or points to. *)
Deref(v) == IF v.kind = "value" THEN v.val ELSE ro(CellAt(v.to))

(* Faulty variant: `* mut name` keeps the reference rw() returned. *)
StoredByReference(bind, cell) ==
    LET got == IF bind.op = "rw" THEN "&mut" ELSE "&"
        item == IF bind.op = "rw" THEN rw(cell) ELSE ro(cell)
    IN
    CASE bind.stmt \in {"let", "assign", "let mut *"} ->
            Var(got, FALSE, -1, cell.path)
      [] bind.stmt = "assign &" -> Var("&" \o got, FALSE, -1, cell.path)
      [] bind.stmt \in {"let *", "assign *"} ->
            Var("value", FALSE, Cast(item, bind.cast), NoPath)

(* What the statement of an arm stores: the reference the access        *)
(* operation returned, a reference to it, or the item behind it,        *)
(* coerced.                                                             *)
Stored(bind, cell) ==
    LET got == IF bind.op = "rw" THEN "&mut" ELSE "&"
        item == IF bind.op = "rw" THEN rw(cell) ELSE ro(cell)
    IN
    CASE bind.stmt \in {"let", "assign"} -> Var(got, FALSE, -1, cell.path)
      [] bind.stmt = "assign &" -> Var("&" \o got, FALSE, -1, cell.path)
      [] bind.stmt = "let mut *" ->
            Var("value", TRUE, Cast(item, bind.cast), NoPath)
      [] bind.stmt \in {"let *", "assign *"} ->
            Var("value", FALSE, Cast(item, bind.cast), NoPath)

(* What rustc demands of an invocation: rw() takes `&mut` Owner, an     *)
(* integer coercion applies to a dereferenced item only, and an         *)
(* assignment fits the type of the variable assigned.                   *)
TypeChecks(code, scope, cast) ==
    /\ code.bind.op = "rw" => code.owner.ref = "&mut"
    /\ cast # "" => code.bind.stmt \in {"let *", "let mut *", "assign *"}
    /\ scope = "external" =>
          outer.kind \in {"none", Stored(code.bind, NoCell).kind}

(* The invocation may start. *)
CanOpen(src, name, pattern, cast, body) ==
    /\ blk.pc = "idle"
    /\ TypeChecks(Block(src, name, pattern, cast, body),
                  reorganize_body1(pattern).scope, cast)

(* The block is entered with the Owner acquired, or the acquisition     *)
(* panicked and nothing of the block ran.                               *)
Opened(src, name, cell, pattern, cast, body) ==
    LET code == Block(src, name, pattern, cast, body)
        entered == mode' = "run"
    IN
    /\ blk' = [pc |-> IF ~entered THEN "done"
                      ELSE IF code.bind.stmt = "none" THEN "body"
                      ELSE "bind",
               src |-> src, pattern |-> pattern, code |-> code,
               cell |-> cell.path, entry |-> ro(cell), owner |-> last'.path,
               via |-> last'.arg[2],
               ops |-> <<>>, x |-> NoVar, was |-> outer, writes |-> 0,
               trail |-> <<>>,
               exit |-> IF entered THEN "none" ELSE "abort",
               depth |-> IF entered THEN Len(stack') ELSE 0]
    /\ UNCHANGED outer

(* c_scp! { use path => ( ... ) }, { let my_owner = path => ( ... ) } *)
BlockFromPath(path, name, cell, pattern, cast, body) ==
    /\ CanOpen("from_path", name, pattern, cast, body)
    /\ ScpPath(path, cell, pattern)
    /\ Opened("from_path", name, cell, pattern, cast, body)

(* c_scp! { use _ => ( ... ) }, { let my_owner = _ => ( ... ) } *)
BlockFromAuto(name, cell, pattern, cast, body) ==
    /\ CanOpen("from_auto", name, pattern, cast, body)
    /\ ScpAuto(cell, pattern)
    /\ Opened("from_auto", name, cell, pattern, cast, body)

(* c_scp! { use [self] => ( ... ) }, { let my_owner = [self] => ( ... ) } *)
BlockFromSelf(name, cell, pattern, cast, body) ==
    /\ CanOpen("from_self", name, pattern, cast, body)
    /\ ScpSelf(cell, pattern)
    /\ Opened("from_self", name, cell, pattern, cast, body)

(* c_scp! { use &o => ( ... ) }, { use &mut o => ( ... ) } and the `let` *)
(* forms, o being the Owner that scope i of the calling code names.      *)
BlockFromBorrow(i, ref, name, cell, pattern, cast, body) ==
    LET src == IF ref = "&mut" THEN "from_scp_src_ismut"
                               ELSE "from_scp_src_immut"
    IN
    /\ CanOpen(src, name, pattern, cast, body)
    /\ ScpBorrow(i, ref, cell, pattern)
    /\ Opened(src, name, cell, pattern, cast, body)

(* The compiler rejects the invocation for its coercion type alone:    *)
(* the statement of the arm type-checks without it and not with it     *)
(* (`let x : u8 = cell.ro(owner);` has mismatched types, `x =           *)
(* cell.ro(owner) as u8;` is an invalid cast of a reference).  No       *)
(* program is built and nothing runs.                                   *)
RejectBlock(src, cell, pattern, cast) ==
    /\ blk.pc = "idle"
    /\ mode = "run"
    /\ last.op = "init"
    /\ LET code == Block(src, "__scope_owner", pattern, cast, FALSE)
           scope == reorganize_body1(pattern).scope
       IN
       /\ TypeChecks(code, scope, "")
       /\ ~TypeChecks(code, scope, cast)
    /\ mode' = "rejected"
    /\ last' = Result("rustc", <<pattern, cast>>, "rejected", cell.path, <<>>,
                      ro(cell))
    /\ UNCHANGED <<decls, mods, registry, stack, cells, blk, outer, unit>>

(* Faulty variant: every arm declares a variable of the block, the     *)
(* external ones too.                                                  *)
BindShadows ==
    /\ mode = "run"
    /\ blk.pc = "bind"
    /\ blk' = [blk EXCEPT !.pc = "body",
                          !.ops = Append(@, <<blk.code.bind.op,
                                              blk.code.bind.with>>),
                          !.x = Stored(blk.code.bind, CellAt(blk.cell))]
    /\ UNCHANGED <<decls, mods, registry, stack, cells, mode, last, outer>>

(* The statement of the arm: the access operation with the owner name,  *)
(* its result stored in a new variable of the block or assigned to the  *)
(* variable of the calling code (lib.rs 512-718).                       *)
Bind ==
    /\ mode = "run"
    /\ blk.pc = "bind"
    /\ LET b == blk.code.bind
           v == Stored(b, CellAt(blk.cell))
           external == b.stmt \in {"assign", "assign &", "assign *"}
       IN
       /\ blk' = [blk EXCEPT !.pc = "body",
                             !.ops = Append(@, <<b.op, b.with>>),
                             !.x = IF external THEN @ ELSE v,
                             !.writes = IF external THEN @ + 1 ELSE @]
       /\ outer' = IF external THEN v ELSE outer
    /\ UNCHANGED <<decls, mods, registry, stack, cells, mode, last>>

(* A statement of the caller's block may run. *)
InBody ==
    /\ mode = "run"
    /\ blk.pc = "body"
    /\ blk.code.body
    /\ Len(blk.trail) < MaxStmts

(* The Cell `cell` gets `item` written through a rw() reference. *)
Written(cell, item) ==
    (cells (-) SetToBag({cell})) (+) SetToBag({CellSet(cell, item)})

(* Faulty variant: the increment of the copy reaches the Cell too. *)
IncrLocalWritesBack ==
    /\ InBody
    /\ blk.x.kind = "value"
    /\ blk.x.mut
    /\ cells' = Written(CellAt(blk.cell), rw(CellAt(blk.cell)) + 1)
    /\ blk' = [blk EXCEPT !.x.val = @ + 1, !.trail = Append(@, "x += 1")]
    /\ UNCHANGED <<decls, mods, registry, stack, mode, last, outer>>

(* `x += 1;` on the block's own copy of the item (`* mut x`). *)
IncrLocal ==
    /\ InBody
    /\ blk.x.kind = "value"
    /\ blk.x.mut
    /\ blk' = [blk EXCEPT !.x.val = @ + 1, !.trail = Append(@, "x += 1")]
    /\ UNCHANGED <<decls, mods, registry, stack, cells, mode, last, outer>>

(* Faulty variant: the increment through the reference is lost. *)
IncrThroughRefLost ==
    /\ InBody
    /\ blk.x.kind = "&mut"
    /\ blk' = [blk EXCEPT !.trail = Append(@, "*x += 1")]
    /\ UNCHANGED <<decls, mods, registry, stack, cells, mode, last, outer>>

(* `*x += 1;` through the reference rw() returned (`mut x`, `&mut x`). *)
IncrThroughRef ==
    /\ InBody
    /\ blk.x.kind = "&mut"
    /\ cells' = Written(CellAt(blk.x.to), rw(CellAt(blk.x.to)) + 1)
    /\ blk' = [blk EXCEPT !.trail = Append(@, "*x += 1")]
    /\ UNCHANGED <<decls, mods, registry, stack, mode, last, outer>>

(* `*cell.rw(my_owner) += 1;`: the caller's statements access the Cell  *)
(* themselves.  Only an Owner named with `let A = ...` can be named by  *)
(* them (__scope_owner is hygienic), rw() takes it `&mut`, it must be   *)
(* the Owner of the Cell's Marker, and no other borrow of it is held.   *)
AccessRw ==
    /\ InBody
    /\ blk.code.owner.name # "__scope_owner"
    /\ blk.code.owner.ref = "&mut"
    /\ MarkerOf(blk.owner) = MarkerOf(blk.cell)
    /\ blk.code.bind.stmt \in {"none", "let *", "let mut *", "assign *"}
    /\ cells' = Written(CellAt(blk.cell), rw(CellAt(blk.cell)) + 1)
    /\ blk' = [blk EXCEPT !.trail = Append(@, "*cell.rw(owner) += 1")]
    /\ UNCHANGED <<decls, mods, registry, stack, mode, last, outer>>

(* The closing brace of the generated block is reached. *)
BlockEnd ==
    /\ blk.pc = "body"
    /\ ScpExit
    /\ blk' = [blk EXCEPT !.pc = "done", !.exit = "end"]
    /\ UNCHANGED outer

(* `return;` in the caller's statements: the block is left, and what it *)
(* declared is dropped.                                                 *)
EarlyReturn ==
    /\ InBody
    /\ ScpExit
    /\ blk' = [blk EXCEPT !.pc = "done", !.exit = "return"]
    /\ UNCHANGED outer

(* `panic!();` in the caller's statements. *)
PanicInBody ==
    /\ InBody
    /\ mode' = "unwind"
    /\ blk' = [blk EXCEPT !.pc = "done", !.exit = "panic"]
    /\ UNCHANGED <<decls, mods, registry, stack, cells, last, outer>>

(* ------------------------------------------------------------------ *)
(* The program of c_scp_grammar_tests (lib.rs 4103-4329): two           *)
(* thread-local Uniform groups and a struct with one Cell of each, the  *)
(* struct implementing the Get*Owner traits.  The calling code builds   *)
(* Owners of its own, which it may lend, and then invokes c_scp once,   *)
(* with a variable `outer` in scope that is uninitialised or holds 7.   *)
(* ------------------------------------------------------------------ *)
ScopeGroups == {"test_uni_grp", "test_uni_grp2"}

Items == {5, 261}

ScopeInit ==
    /\ decls = [g \in ScopeGroups |-> "TLCellUniGrp"]
    /\ mods = [g \in ScopeGroups |-> line("TLCellUniGrp")]
    /\ registry = {}
    /\ stack = <<>>
    /\ \E item \in Items :
          cells = SetToBag({CellNew(<<"test_uni_grp", "UniCell">>, item),
                            CellNew(<<"test_uni_grp2", "UniCell">>, 2)})
    /\ mode = "run"
    /\ last = Result("init", <<"", "">>, "none", NoPath, <<>>, -1)
    /\ blk = NoBlock
    /\ outer \in {NoVar, Var("value", TRUE, 7, NoPath)}
    /\ unit = NoUnit

NoBlockOpen == blk.pc = "idle"

ScopeNext ==
    \/ \E g \in DOMAIN mods, level \in Levels :
          /\ NoBlockOpen
          /\ has_access(mods[g], level)
          /\ NewOwner(g, level)
          /\ UNCHANGED <<blk, outer, unit>>
    \/ NoBlockOpen /\ DropOwner /\ UNCHANGED <<blk, outer, unit>>
    \/ \E path \in OwnerPaths, name \in OwnerNames, cell \in BagToSet(cells),
          pattern \in Patterns, cast \in Casts, body \in BOOLEAN :
          BlockFromPath(path, name, cell, pattern, cast, body) /\ UNCHANGED unit
    \/ \E name \in OwnerNames, cell \in BagToSet(cells),
          pattern \in Patterns, cast \in Casts, body \in BOOLEAN :
          BlockFromAuto(name, cell, pattern, cast, body) /\ UNCHANGED unit
    \/ \E name \in OwnerNames, cell \in BagToSet(cells),
          pattern \in Patterns, cast \in Casts, body \in BOOLEAN :
          BlockFromSelf(name, cell, pattern, cast, body) /\ UNCHANGED unit
    \/ \E i \in 1 .. MaxDepth, ref \in {"&", "&mut"}, name \in OwnerNames,
          cell \in BagToSet(cells), pattern \in Patterns, cast \in Casts,
          body \in BOOLEAN :
          BlockFromBorrow(i, ref, name, cell, pattern, cast, body) /\ UNCHANGED unit
    \/ \E src \in {"from_path", "from_auto", "from_self"},
          cell \in BagToSet(cells), pattern \in Patterns, cast \in Casts :
          RejectBlock(src, cell, pattern, cast)
    \/ Bind /\ UNCHANGED unit
    \/ IncrLocal /\ UNCHANGED unit
    \/ IncrThroughRef /\ UNCHANGED unit
    \/ AccessRw /\ UNCHANGED unit
    \/ BlockEnd /\ UNCHANGED unit
    \/ EarlyReturn /\ UNCHANGED unit
    \/ PanicInBody /\ UNCHANGED unit
    \/ Unwind /\ UNCHANGED <<blk, outer, unit>>
    \/ Catch /\ UNCHANGED <<blk, outer, unit>>

ScopeSpec == ScopeInit /\ [][ScopeNext]_vars

(* ------------------------------------------------------------------ *)
(* def_cells: clusters (lib.rs 2452-2507).  The declaration is a        *)
(* sequence of lines `[vis mod] name : Category;` or `[vis mod] name    *)
(* :: { entries };`.  The compiler expands one macro invocation at a    *)
(* time, in place, until the module tree holds no invocation.           *)
(* ------------------------------------------------------------------ *)
MaxNest == 3

(* One entry `name $( : category )? $( :: { entries } )?`: an optional  *)
(* fragment is the sequence of its zero or one matches.                 *)
Entry(name, category, extension) ==
    [name |-> name, category |-> category, extension |-> extension]

Leaf(name, category) == Entry(name, <<category>>, <<>>)

Branch(name, body) == Entry(name, <<>>, <<body>>)

Line(vis, entry) == [vis |-> vis, entry |-> entry]

(* The items of a module: a macro invocation yet to be expanded, or an  *)
(* inline module.  The contents of a group module are mods[its path];   *)
(* the items of any other module are unit.items[its path].              *)
Invocation(rule, vis, tokens) ==
    [kind |-> "call", rule |-> rule, vis |-> vis, name |-> "",
     tokens |-> tokens]

Mod(vis, name) ==
    [kind |-> "mod", rule |-> "", vis |-> vis, name |-> name,
     tokens |-> <<>>]

(* Line splitter (lib.rs 2488-2507): one @line invocation per line, in  *)
(* the order of the lines.                                              *)
line_splitter(lines) ==
    [k \in 1 .. Len(lines) |->
        Invocation("@line", lines[k].vis, <<lines[k].entry>>)]

(* Faulty variant: only the first entry of a cluster is transcribed. *)
check_cluster_first(body) ==
    [items |-> IF body[1].category # <<>>
               THEN <<Invocation("@line", "pub",
                                 <<Leaf(body[1].name, body[1].category[1])>>)>>
               ELSE <<Mod("pub", body[1].name)>>,
     inner |-> {e \in {body[1]} : e.extension # <<>>}]

RECURSIVE Transcribe(_, _)
(* The items @check_cluster writes for entries k.. of `body`. *)
Transcribe(body, k) ==
    IF k > Len(body) THEN <<>>
    ELSE LET e == body[k] IN
         (IF e.category # <<>>
          THEN <<Invocation("@line", "pub", <<Leaf(e.name, e.category[1])>>)>>
          ELSE <<>>)
         \o (IF e.extension # <<>> THEN <<Mod("pub", e.name)>> ELSE <<>>)
         \o Transcribe(body, k + 1)

(* @check_cluster (lib.rs 2452-2474): for every entry, in order, an     *)
(* @line invocation if it has a category and a `pub mod` holding a      *)
(* nested @check_cluster if it has an extension.                        *)
check_cluster(body) ==
    [items |-> Transcribe(body, 1),
     inner |-> {body[k] : k \in {j \in 1 .. Len(body) :
                                    body[j].extension # <<>>}}]

(* The item at position i of module `at` is a pending invocation of `rule`. *)
Pending(at, i, rule) ==
    /\ at \in DOMAIN unit.items
    /\ i \in 1 .. Len(unit.items[at])
    /\ unit.items[at][i].kind = "call"
    /\ unit.items[at][i].rule = rule

(* The invocation at position i of module `at` replaced by `new`, and   *)
(* the modules `inner` (path -> items) added.                           *)
Expanded(at, i, new, inner) ==
    [unit EXCEPT !.items =
        inner @@ [@ EXCEPT ![at] = SubSeq(@, 1, i - 1) \o new
                                   \o SubSeq(@, i + 1, Len(@))]]

(* def_cells! { lines }: the line splitter arm *)
SplitLines(at, i) ==
    /\ Pending(at, i, "def_cells")
    /\ unit' = Expanded(at, i, line_splitter(unit.items[at][i].tokens), <<>>)
    /\ UNCHANGED <<decls, mods, registry, stack, cells, mode, last, blk, outer>>

(* @line => [vis mod] name : Category (lib.rs 2315-2450): the group     *)
(* module `vis mod name { ... }` of that category.                      *)
LineGroup(at, i) ==
    /\ Pending(at, i, "@line")
    /\ LET call == unit.items[at][i]
           e == call.tokens[1]
           path == Append(at, e.name)
       IN
       /\ e.category # <<>>
       /\ e.extension = <<>>
       /\ e.category[1] \in Decls
       /\ unit' = Expanded(at, i, <<Mod(call.vis, e.name)>>, <<>>)
       /\ decls' = (path :> e.category[1]) @@ decls
       /\ mods' = (path :> line(e.category[1])) @@ mods
    /\ UNCHANGED <<registry, stack, cells, mode, last, blk, outer>>

(* @line => [vis mod] name :: { entries }: cluster stage 0 (lib.rs      *)
(* 2476-2486)                                                           *)
LineCluster(at, i) ==
    /\ Pending(at, i, "@line")
    /\ LET call == unit.items[at][i]
           e == call.tokens[1]
       IN
       /\ e.category = <<>>
       /\ e.extension # <<>>
       /\ unit' = Expanded(at, i, <<Mod(call.vis, e.name)>>,
                           Append(at, e.name) :>
                              <<Invocation("@check_cluster", "",
                                           e.extension[1])>>)
    /\ UNCHANGED <<decls, mods, registry, stack, cells, mode, last, blk, outer>>

(* @check_cluster => { entries } *)
CheckCluster(at, i) ==
    /\ Pending(at, i, "@check_cluster")
    /\ LET body == unit.items[at][i].tokens
           out == check_cluster(body)
       IN
       /\ Len(body) >= 1
       /\ unit' = Expanded(at, i, out.items,
                           [p \in {Append(at, e.name) : e \in out.inner} |->
                               LET e == CHOOSE e \in out.inner :
                                           Append(at, e.name) = p
                               IN <<Invocation("@check_cluster", "",
                                               e.extension[1])>>])
    /\ UNCHANGED <<decls, mods, registry, stack, cells, mode, last, blk, outer>>

(* No invocation is left to expand. *)
FullyExpanded ==
    \A at \in DOMAIN unit.items :
       \A i \in 1 .. Len(unit.items[at]) : unit.items[at][i].kind # "call"

(* `path` names a module: every name of it is a `mod` item of the       *)
(* module the names before it lead to.                                  *)
Reachable(path) ==
    \A k \in 1 .. Len(path) :
       LET parent == SubSeq(path, 1, k - 1) IN
       /\ parent \in DOMAIN unit.items
       /\ \E i \in 1 .. Len(unit.items[parent]) :
             /\ unit.items[parent][i].kind = "mod"
             /\ unit.items[parent][i].name = path[k]

(* assert!(a::b::c::has_<level>_access()) in the code after the         *)
(* declaration (lib.rs 3939-3942)                                       *)
CallHasAccess(path, level) ==
    /\ FullyExpanded
    /\ Reachable(path)
    /\ path \in DOMAIN mods
    /\ last' = Result("has_access", <<path, level>>,
                      IF has_access(mods[path], level) THEN "true" ELSE "false",
                      path, <<>>, -1)
    /\ UNCHANGED <<decls, mods, registry, stack, cells, mode, blk, outer, unit>>

(* ------------------------------------------------------------------ *)
(* The declarations expanded: one line `[pub mod] h :: { ... }` whose   *)
(* clusters nest up to MaxNest deep, alone or followed by a line that   *)
(* declares a group.  A cluster has one or two entries, named a and b   *)
(* in that order; of two sibling clusters both hold groups only.        *)
(* ------------------------------------------------------------------ *)
ClusterCategories == {"TCellUniGrp", "TLCellAccGrp"}

LeafBodies ==
    {<<Leaf("a", c)>> : c \in ClusterCategories}
    \cup {<<Leaf("a", c[1]), Leaf("b", c[2])>> :
            c \in ClusterCategories \X ClusterCategories}

RECURSIVE Bodies(_)
Bodies(nest) ==
    IF nest <= 1 THEN LeafBodies
    ELSE LET inner == Bodies(nest - 1) IN
         LeafBodies
         \cup {<<Branch("a", b)>> : b \in inner}
         \cup {<<Branch("a", x[1]), Leaf("b", x[2])>> :
                 x \in inner \X ClusterCategories}
         \cup {<<Leaf("a", x[2]), Branch("b", x[1])>> :
                 x \in inner \X ClusterCategories}
         \cup {<<Branch("a", x[1]), Branch("b", x[2])>> :
                 x \in LeafBodies \X LeafBodies}

Declarations ==
    {<<Line("pub", Branch("h", b))>> : b \in Bodies(MaxNest)}
    \cup {<<Line("pub", Branch("h", b)), Line("", Leaf("g", "TLCellPvtGrp"))>> :
            b \in Bodies(MaxNest)}

ClusterInit ==
    /\ decls = <<>>
    /\ mods = <<>>
    /\ registry = {}
    /\ stack = <<>>
    /\ cells = EmptyBag
    /\ mode = "run"
    /\ last = Result("init", <<"", "">>, "none", NoPath, <<>>, -1)
    /\ blk = NoBlock
    /\ outer = NoVar
    /\ \E lines \in Declarations :
          unit = [decl |-> lines,
                  items |-> (<<>> :> <<Invocation("def_cells", "", lines)>>)]

ClusterNext ==
    \/ \E at \in DOMAIN unit.items :
          \E i \in 1 .. Len(unit.items[at]) : SplitLines(at, i)
    \/ \E at \in DOMAIN unit.items :
          \E i \in 1 .. Len(unit.items[at]) : LineGroup(at, i)
    \/ \E at \in DOMAIN unit.items :
          \E i \in 1 .. Len(unit.items[at]) : LineCluster(at, i)
    \/ \E at \in DOMAIN unit.items :
          \E i \in 1 .. Len(unit.items[at]) : CheckCluster(at, i)
    \/ \E path \in DOMAIN mods, level \in Levels : CallHasAccess(path, level)

ClusterSpec == ClusterInit /\ [][ClusterNext]_vars

(* ------------------------------------------------------------------ *)
(* def_cells: entries that carry neither a category nor a cluster.      *)
(* ------------------------------------------------------------------ *)
BareEntry(name) == Entry(name, <<>>, <<>>)

(* An @line invocation none of the @line arms takes (lib.rs 2315-2450,  *)
(* 2476-2486), nor any other arm of def_cells: the compiler reports "no *)
(* rules expected the token" and the compilation produces nothing.      *)
RejectLine(at, i) ==
    /\ Pending(at, i, "@line")
    /\ LET e == unit.items[at][i].tokens[1] IN
       /\ ~(e.category # <<>> /\ e.extension = <<>> /\ e.category[1] \in Decls)
       /\ ~(e.category = <<>> /\ e.extension # <<>>)
       /\ last' = Result("def_cells", <<at, e.name>>, "rejected", NoPath,
                         <<>>, -1)
    /\ unit' = [unit EXCEPT !.items = <<>>]
    /\ decls' = <<>>
    /\ mods' = <<>>
    /\ UNCHANGED <<registry, stack, cells, mode, blk, outer>>

RECURSIVE Named(_, _)
(* The module paths the entries of `body` name, below `prefix`. *)
Named(prefix, body) ==
    UNION {{Append(prefix, body[k].name)}
           \cup (IF body[k].extension # <<>>
                 THEN Named(Append(prefix, body[k].name), body[k].extension[1])
                 ELSE {}) : k \in 1 .. Len(body)}

(* The code after the declaration names a module the declaration        *)
(* mentions but the expansion did not produce: the path does not        *)
(* resolve.                                                             *)
UseMissing(path, level) ==
    /\ unit.items # <<>>
    /\ FullyExpanded
    /\ ~Reachable(path)
    /\ last' = Result("has_access", <<path, level>>, "unresolved", path,
                      <<>>, -1)
    /\ UNCHANGED <<decls, mods, registry, stack, cells, mode, blk, outer, unit>>

(* The declarations with a bare entry: as a line of its own, or in a    *)
(* cluster, alone or next to a group, the cluster nested up to MaxNest  *)
(* deep in clusters of one entry or of one entry and a group.           *)
BareBodies ==
    {<<BareEntry("a")>>, <<BareEntry("a"), BareEntry("b")>>}
    \cup {<<BareEntry("a"), Leaf("b", c)>> : c \in ClusterCategories}
    \cup {<<Leaf("a", c), BareEntry("b")>> : c \in ClusterCategories}

RECURSIVE Nested(_, _)
Nested(bodies, nest) ==
    IF nest <= 1 THEN bodies
    ELSE LET inner == Nested(bodies, nest - 1) IN
         bodies
         \cup {<<Branch("a", b)>> : b \in inner}
         \cup {<<Branch("a", b), Leaf("b", "TLCellPvtGrp")>> : b \in inner}

BareDeclarations ==
    {<<Line("pub", BareEntry("h"))>>}
    \cup {<<Line("pub", Leaf("h", c)), Line("", BareEntry("g"))>> :
            c \in ClusterCategories}
    \cup {<<Line("pub", Branch("h", b))>> : b \in Nested(BareBodies, MaxNest)}

BareInit ==
    /\ decls = <<>>
    /\ mods = <<>>
    /\ registry = {}
    /\ stack = <<>>
    /\ cells = EmptyBag
    /\ mode = "run"
    /\ last = Result("init", <<"", "">>, "none", NoPath, <<>>, -1)
    /\ blk = NoBlock
    /\ outer = NoVar
    /\ \E lines \in BareDeclarations :
          unit = [decl |-> lines,
                  items |-> (<<>> :> <<Invocation("def_cells", "", lines)>>)]

BareNext ==
    \/ \E at \in DOMAIN unit.items :
          \E i \in 1 .. Len(unit.items[at]) : SplitLines(at, i)
    \/ \E at \in DOMAIN unit.items :
          \E i \in 1 .. Len(unit.items[at]) : LineGroup(at, i)
    \/ \E at \in DOMAIN unit.items :
          \E i \in 1 .. Len(unit.items[at]) : LineCluster(at, i)
    \/ \E at \in DOMAIN unit.items :
          \E i \in 1 .. Len(unit.items[at]) : CheckCluster(at, i)
    \/ \E at \in DOMAIN unit.items :
          \E i \in 1 .. Len(unit.items[at]) : RejectLine(at, i)
    \/ \E path \in DOMAIN mods, level \in Levels : CallHasAccess(path, level)
    \/ \E path \in Named(<<>>, [k \in 1 .. Len(unit.decl) |-> unit.decl[k].entry]),
          level \in Levels : UseMissing(path, level)

BareSpec == BareInit /\ [][BareNext]_vars

(* ------------------------------------------------------------------ *)
(* A program with several triples: an Access group (two triples) and   *)
(* two Uniform groups, one Cell of every Cell type, and code that       *)
(* builds, lends, uses and drops Owners of all of them (lib.rs          *)
(* 3343-3371, 4103-4114, 4318-4327).                                    *)
(* ------------------------------------------------------------------ *)
TripleDecls ==
    [example_acc_grp |-> "TLCellAccGrp", test_uni_grp |-> "TLCellUniGrp",
     test_uni_grp2 |-> "TLCellUniGrp"]

TriplePatterns == {"cell", "name"}

TripleInit ==
    /\ decls = TripleDecls
    /\ mods = [g \in DOMAIN TripleDecls |-> line(TripleDecls[g])]
    /\ registry = {}
    /\ stack = <<>>
    /\ cells = SetToBag(UNION {{CellNew(<<g, n>>, 5) : n \in CellTypes(mods[g])} :
                                  g \in DOMAIN TripleDecls})
    /\ mode = "run"
    /\ last = Result("init", <<"", "">>, "none", NoPath, <<>>, -1)
    /\ blk = NoBlock
    /\ outer = NoVar
    /\ unit = NoUnit

TripleNext ==
    \/ \E g \in DOMAIN mods, level \in Levels :
          /\ has_access(mods[g], level)
          /\ NewOwner(g, level)
          /\ UNCHANGED <<blk, outer, unit>>
    \/ \E path \in OwnerPaths, cell \in BagToSet(cells),
          pattern \in TriplePatterns :
          ScpPath(path, cell, pattern) /\ UNCHANGED <<blk, outer, unit>>
    \/ \E cell \in BagToSet(cells), pattern \in TriplePatterns :
          ScpAuto(cell, pattern) /\ UNCHANGED <<blk, outer, unit>>
    \/ \E i \in 1 .. MaxDepth, ref \in {"&", "&mut"},
          cell \in BagToSet(cells), pattern \in TriplePatterns :
          ScpBorrow(i, ref, cell, pattern) /\ UNCHANGED <<blk, outer, unit>>
    \/ ScpExit /\ UNCHANGED <<blk, outer, unit>>
    \/ DropOwner /\ UNCHANGED <<blk, outer, unit>>
    \/ Unwind /\ UNCHANGED <<blk, outer, unit>>
    \/ Catch /\ UNCHANGED <<blk, outer, unit>>

TripleSpec == TripleInit /\ [][TripleNext]_vars

(* ------------------------------------------------------------------ *)
(* C11: for a Uniform Cell holding 5, the block of `use _ => (cell =>   *)
(* *mut x) { x += 1; }` leaves the Cell holding 6 after the block, as a *)
(* later read-only access observes.                                     *)
(* ------------------------------------------------------------------ *)
C11_RoundTrip ==
    /\ blk.pc = "done"
    /\ blk.exit = "end"
    /\ blk.src = "from_auto"
    /\ blk.pattern = "* mut"
    /\ blk.code.owner.name = "__scope_owner"
    /\ DeclaredCategory(decls[blk.cell[1]]) = "Uniform"
    /\ blk.entry = 5
    /\ blk.trail = <<"x += 1">>

C11_CellHoldsSix == C11_RoundTrip => ro(CellAt(blk.cell)) = 6

(* C11, amended: the block leaves the Cell holding 5; `*mut x` binds x  *)
(* to a copy of the item obtained through rw(), which `x += 1` makes 6  *)
(* inside the block, and nothing is written back.                       *)
C11_CopyIsIncremented ==
    C11_RoundTrip =>
        /\ ro(CellAt(blk.cell)) = 5
        /\ blk.x = Var("value", TRUE, 6, NoPath)
        /\ blk.ops = <<<<"rw", "__scope_owner">>>>

C11_Witness ==
    /\ C11_RoundTrip
    /\ blk.code.bind.cast = ""
    /\ ro(CellAt(blk.cell)) = 5
    /\ blk.x.val = 6
    /\ stack = <<>>

(* The forms of the operation details, by what they do with the result. *)
External == {"out", "out mut", "* out", "* out mut", "& out", "& out mut"}

Internal == {"name", "& name", "mut", "& mut", "*", "* mut"}

Bare == {"cell", "mut cell"}

Marked == {"mut cell", "out mut", "* out mut", "& out mut", "mut", "& mut",
           "* mut"}

Borrowed == {"from_scp_src_immut", "from_scp_src_ismut"}

(* The block's Owner is acquired and the block has not been left. *)
InBlock ==
    /\ blk.pc \in {"bind", "body"}
    /\ Len(stack) = blk.depth
    /\ Top.what = "scp"
    /\ Top.path = blk.owner

(* The generated statements of the block have all run. *)
Bound == blk.pc = "body" \/ (blk.pc = "done" /\ blk.exit # "abort")

(* What the variable of the calling code is to hold after an external   *)
(* pattern: the reference ro() / rw() returned for `out` / `out mut`, a *)
(* reference to it for `& out` / `& out mut`, and for `* out` /         *)
(* `* out mut` the item the Cell held, coerced with `as`.               *)
Assigned(pattern) ==
    CASE pattern = "out" -> Var("&", FALSE, -1, blk.cell)
      [] pattern = "out mut" -> Var("&mut", FALSE, -1, blk.cell)
      [] pattern = "& out" -> Var("&&", FALSE, -1, blk.cell)
      [] pattern = "& out mut" -> Var("&&mut", FALSE, -1, blk.cell)
      [] pattern \in {"* out", "* out mut"} ->
            Var("value", FALSE,
                IF blk.code.bind.cast = "u8" THEN blk.entry % 256
                                             ELSE blk.entry,
                NoPath)

InvokedRw == blk.ops = <<<<"rw", blk.code.owner.name>>>>

(* The generated code invoked ro() once, with the owner name. *)
InvokedRo == blk.ops = <<<<"ro", blk.code.owner.name>>>>

C14_OneAccessPerBinding ==
    blk.pattern \in Internal \cup External =>
        /\ blk.pc = "bind" => blk.ops = <<>>
        /\ Bound =>
              LET v == IF blk.pattern \in External THEN outer ELSE blk.x IN
              /\ Len(blk.ops) = 1
              /\ blk.ops[1][2] = blk.code.owner.name
              /\ blk.ops[1][1] = IF blk.pattern \in Marked THEN "rw" ELSE "ro"
              /\ blk.src \notin Borrowed =>
                    (blk.code.owner.ref = "&mut" <=> blk.ops[1][1] = "rw")
              /\ v.kind # "none"
              /\ v.kind # "value" => v.to = blk.cell

(* `let my_owner = path => (cell => &out mut outer)` has run rw() once  *)
(* with my_owner, which is `&mut`; `use _ => (cell => * x)` has its     *)
(* counterpart in every other run.                                      *)
C14_Witness ==
    /\ InBlock
    /\ blk.pc = "body"
    /\ blk.src = "from_path"
    /\ blk.pattern = "& out mut"
    /\ blk.ops = <<<<"rw", "my_owner">>>>
    /\ Top.ref = "&mut"
    /\ outer.kind = "&&mut"

(* How often the caller's statements have written the Cell through an  *)
(* access of their own.                                                *)
OwnAccesses ==
    Cardinality({i \in DOMAIN blk.trail : blk.trail[i] = "*cell.rw(owner) += 1"})

(* What a bare selector leaves alone: no access operation by the       *)
(* generated code, no variable, and the Cell as it was up to what the   *)
(* caller's statements did through the named Owner.                     *)
OnlyAcquires ==
    /\ blk.code.owner.name \in OwnerNames
    /\ blk.code.bind.stmt = "none"
    /\ blk.ops = <<>>
    /\ blk.x = NoVar
    /\ blk.writes = 0
    /\ outer = blk.was
    /\ ro(CellAt(blk.cell)) = blk.entry + OwnAccesses
    /\ OwnAccesses > 0 =>
          /\ blk.code.owner.name = "my_owner"
          /\ blk.code.owner.ref = "&mut"
          /\ MarkerOf(blk.owner) = MarkerOf(blk.cell)

Respelled(pattern) ==
    Block(blk.src, blk.code.owner.name, pattern, blk.code.bind.cast,
          blk.code.body)

Left == blk.depth > 0 /\ Len(stack) < blk.depth

(* ------------------------------------------------------------------ *)
(* C17: for the sources that are not borrowed, the Owner a block       *)
(* acquired is released on every exit path of the generated block:     *)
(* its closing brace, a `return` in the trailing statements, a panic   *)
(* in them; after any exit the Marker has no live Owner left behind by *)
(* the block.                                                          *)
(* ------------------------------------------------------------------ *)
C17_ReleasedOnEveryExit ==
    blk.src \in OwnerSources \ Borrowed =>
        /\ InBlock => Top.owned /\ MarkerOf(blk.owner) \in registry
        /\ blk.pc = "done" /\ blk.exit # "abort" =>
              blk.exit \in {"end", "return", "panic"}
        /\ blk.exit \in {"end", "return"} => Left
        /\ Left =>
              /\ MarkerOf(blk.owner) \notin registry
              /\ \A marker \in registry : Owned(marker)
              /\ \A i \in 1 .. Len(stack) : stack[i].what = "let"

(* A panic in the statements of `use _ => (...) { ... }` has unwound    *)
(* the block while an Owner of the other group, built by the calling    *)
(* code, is still in scope: only that one is live.                      *)
C17_Witness ==
    /\ blk.src = "from_auto"
    /\ blk.exit = "panic"
    /\ mode = "unwind"
    /\ Left
    /\ Len(stack) = 1
    /\ stack[1].owned
    /\ registry = {MarkerOf(stack[1].path)}
    /\ MarkerOf(blk.owner) \notin registry

(* ------------------------------------------------------------------ *)
(* C18: every generated Cell type implements the owner bridge of its   *)
(* own access level and no other (UniCell: GetEasyUniOwner, PubCell:   *)
(* GetEasyPubOwner, PvtCell: GetEasyPvtOwner); its OwnerType is the    *)
(* Owner of the same Marker; get_new_matching_owner() constructs a new *)
(* Owner of that type, and get_matching_owner_from(src) returns what   *)
(* src's getter of the same level returns.                             *)
(* ------------------------------------------------------------------ *)
C18_Level ==
    [UniCell |-> [trait |-> "GetEasyUniOwner", getter |-> "get_uniform_owner"],
     PubCell |-> [trait |-> "GetEasyPubOwner", getter |-> "get_public_owner"],
     PvtCell |-> [trait |-> "GetEasyPvtOwner", getter |-> "get_private_owner"]]

C18_Implemented ==
    \A g \in DOMAIN mods :
       LET m == mods[g] IN
       /\ DOMAIN m.bridges = CellTypes(m)
       /\ \A n \in CellTypes(m) :
             LET b == m.bridges[n] IN
             /\ b.trait = C18_Level[n].trait
             /\ b.OwnerType \in OwnerTypes(m)
             /\ m.types[b.OwnerType].marker = m.types[n].marker
             /\ b.get_new_matching_owner = b.OwnerType
             /\ b.get_matching_owner_from = C18_Level[n].getter

C18_Called ==
    \A cell \in BagToSet(cells), pattern \in SpecPatterns :
       LET own == <<cell.path[1],
                    mods[cell.path[1]].bridges[cell.path[2]].OwnerType>>
       IN
       /\ ScpAuto(cell, pattern) =>
             /\ last'.path = own
             /\ MarkerOf(own) = MarkerOf(cell.path)
             /\ last'.out = "scope" =>
                   /\ MarkerOf(own) \notin registry
                   /\ registry' = registry \cup {MarkerOf(own)}
                   /\ stack'[Len(stack')].path = own
                   /\ stack'[Len(stack')].owned
             /\ last'.out = "panic" =>
                   /\ MarkerOf(own) \in registry
                   /\ UNCHANGED <<registry, stack>>
       /\ ScpSelf(cell, pattern) =>
             /\ last'.arg[2] = C18_Level[cell.path[2]].getter
             /\ last'.path = get_owner(last'.arg[2], own)

C18_CellBridges == [] C18_Implemented /\ [][C18_Called]_vars

C18_Witness ==
    /\ decls # <<>>
    /\ decls["grp"] = "TCellAccGrp"
    /\ last.op = "c_scp"
    /\ last.arg = <<"from_self", "get_public_owner">>
    /\ last.out = "scope"
    /\ last.path = <<"grp", "PubOwner">>
    /\ stack # <<>>
    /\ stack[Len(stack)].path = <<"grp", "PubOwner">>

(* ------------------------------------------------------------------ *)
(* C19: with the `[self]` owner source and an enclosing object that    *)
(* implements the Get*Owner traits several times, for different Owner  *)
(* types and for several access levels, the Owner the block obtains is *)
(* the one returned by the implementation of the accessed Cell's level *)
(* for the Owner type of the accessed Cell's Marker; it is never an    *)
(* Owner of another group.                                             *)
(* ------------------------------------------------------------------ *)
C19_GetterOf(cell_type) ==
    CASE cell_type = "UniCell" -> "get_uniform_owner"
      [] cell_type = "PubCell" -> "get_public_owner"
      [] cell_type = "PvtCell" -> "get_private_owner"

C19_SeveralImpls ==
    /\ Cardinality({i \in SelfImpls : i.getter = blk.via}) > 1
    /\ Cardinality({i \in SelfImpls : i.T = blk.owner}) > 1

C19_SelfLookupMatchesCell ==
    (blk.pc # "idle" /\ blk.src = "from_self") =>
       /\ blk.via = C19_GetterOf(blk.cell[2])
       /\ blk.owner \in OwnerPaths
       /\ blk.owner[1] = blk.cell[1]
       /\ MarkerOf(blk.owner) = MarkerOf(blk.cell)
       /\ blk.pc \in {"bind", "body"} => stack[blk.depth].path = blk.owner

C19_Witness ==
    /\ blk.pc = "done"
    /\ blk.exit = "end"
    /\ blk.src = "from_self"
    /\ blk.cell = <<"test_uni_grp2", "UniCell">>
    /\ blk.owner = <<"test_uni_grp2", "UniOwner">>
    /\ blk.via = "get_uniform_owner"
    /\ blk.ops # <<>>
    /\ C19_SeveralImpls

(* ------------------------------------------------------------------ *)
(* C20: a declaration with nested clusters expands to a module tree of *)
(* the declaration's shape: every leaf `name: Category` at nesting     *)
(* depth d becomes a group module reachable by the same path of d + 1  *)
(* names, the entries of a cluster all expand, in declaration order,   *)
(* and each leaf's has_* triple and kind are those of its own          *)
(* category whatever its siblings and ancestors are; clusters nested   *)
(* three deep and deeper included.                                     *)
(* ------------------------------------------------------------------ *)
RECURSIVE C20_Leaves(_, _, _)
C20_Leaves(prefix, nest, body) ==
    UNION {IF body[k].category # <<>>
           THEN {[path |-> Append(prefix, body[k].name), nest |-> nest,
                  category |-> body[k].category[1]]}
           ELSE C20_Leaves(Append(prefix, body[k].name), nest + 1,
                           body[k].extension[1]) : k \in 1 .. Len(body)}

RECURSIVE C20_Clusters(_, _)
C20_Clusters(prefix, body) ==
    {[path |-> prefix, names |-> [k \in 1 .. Len(body) |-> body[k].name]]}
    \cup UNION {IF body[k].extension # <<>>
                THEN C20_Clusters(Append(prefix, body[k].name),
                                  body[k].extension[1])
                ELSE {} : k \in 1 .. Len(body)}

C20_Top == [k \in 1 .. Len(unit.decl) |-> unit.decl[k].entry]

C20_Access(category) ==
    CASE DeclaredCategory(category) = "Uniform" -> {"uniform"}
      [] DeclaredCategory(category) = "Private" -> {"private"}
      [] DeclaredCategory(category) = "Public" -> {"public"}
      [] DeclaredCategory(category) = "Access" -> {"private", "public"}

C20_SameShape ==
    LET leaves == C20_Leaves(<<>>, 0, C20_Top) IN
    /\ \A path \in DOMAIN mods :
          \E l \in leaves : l.path = path /\ l.category = decls[path]
    /\ FullyExpanded =>
          /\ \A l \in leaves :
                /\ l.path \in DOMAIN mods
                /\ Reachable(l.path)
                /\ Len(l.path) = l.nest + 1
                /\ \A level \in Levels :
                      has_access(mods[l.path], level)
                         <=> level \in C20_Access(l.category)
                /\ get_cell_impl(mods[l.path]) = {DeclaredKind(l.category)}
          /\ \A c \in C20_Clusters(<<>>, C20_Top) :
                /\ c.path \in DOMAIN unit.items
                /\ [k \in 1 .. Len(unit.items[c.path]) |->
                       unit.items[c.path][k].name] = c.names
    /\ last.op = "has_access" =>
          \E l \in leaves :
             /\ l.path = last.arg[1]
             /\ last.out = "true" <=> last.arg[2] \in C20_Access(l.category)

C20_Witness ==
    /\ FullyExpanded
    /\ Len(unit.decl) = 2
    /\ <<"h", "a", "a", "a">> \in DOMAIN mods
    /\ <<"h", "a", "a", "b">> \in DOMAIN mods
    /\ <<"h", "b">> \in DOMAIN mods
    /\ decls[<<"h", "a", "a", "a">>] = "TLCellAccGrp"
    /\ decls[<<"h", "a", "a", "b">>] = "TCellUniGrp"
    /\ decls[<<"h", "b">>] = "TCellUniGrp"
    /\ last.op = "has_access"
    /\ last.arg = <<<<"h", "a", "a", "a">>, "private">>
    /\ last.out = "true"

(* ------------------------------------------------------------------ *)
(* C21: an entry of a declaration, a top-level line or an entry of a   *)
(* nested cluster, whose name carries neither `: category` nor         *)
(* `:: { nested }` is rejected at expansion time, before any output is *)
(* produced; it is never accepted silently, the error surfacing only   *)
(* when the missing module is used.                                    *)
(* ------------------------------------------------------------------ *)
RECURSIVE C21_BareIn(_)
C21_BareIn(body) ==
    \E k \in 1 .. Len(body) :
       \/ body[k].category = <<>> /\ body[k].extension = <<>>
       \/ body[k].extension # <<>> /\ C21_BareIn(body[k].extension[1])

C21_Top == [k \in 1 .. Len(unit.decl) |-> unit.decl[k].entry]

C21_Accepted == unit.items # <<>> /\ FullyExpanded

C21_BareEntryRejected ==
    C21_BareIn(C21_Top) =>
       /\ ~C21_Accepted
       /\ ~(last.op = "has_access" /\ last.out = "unresolved")
       /\ last.out = "rejected" => mods = <<>> /\ unit.items = <<>>

(* def_cells! { [pub mod] h :: { a, b: TCellUniGrp }; } has expanded to *)
(* `pub mod h { pub mod b { ... } }`; h::b is in use and h::a does not  *)
(* resolve.                                                             *)
C21_Divergence ==
    /\ unit.decl = <<Line("pub", Branch("h", <<BareEntry("a"),
                                               Leaf("b", "TCellUniGrp")>>))>>
    /\ C21_Accepted
    /\ DOMAIN mods = {<<"h", "b">>}
    /\ last.op = "has_access"
    /\ last.arg[1] = <<"h", "a">>
    /\ last.out = "unresolved"

(* ------------------------------------------------------------------ *)
(* C22: Owner liveness is per Marker.  A live Owner of one triple      *)
(* neither prevents nor affects acquiring, using or releasing an Owner *)
(* of another triple, be it the other triple of the same Access group  *)
(* or the triple of another group of the same category; and an Owner   *)
(* gives access only to Cells of its own triple.                       *)
(* ------------------------------------------------------------------ *)
C22_Level ==
    [PvtOwner |-> "private", PvtCell |-> "private",
     PubOwner |-> "public", PubCell |-> "public",
     UniOwner |-> "uniform", UniCell |-> "uniform"]

C22_Triple(path) == <<path[1], C22_Level[path[2]]>>

(* The triples that have a live Owner, read off the scopes. *)
C22_Live(scopes) ==
    {C22_Triple(scopes[k].path) :
        k \in {j \in 1 .. Len(scopes) : scopes[j].owned}}

C22_Acquired(t) ==
    /\ (last'.out = "panic") <=> (t \in C22_Live(stack))
    /\ last'.out = "panic" => last'.msg = OwnerExistsMsg
    /\ last'.out # "panic" =>
          /\ C22_Live(stack') = C22_Live(stack) \cup {t}
          /\ SubSeq(stack', 1, Len(stack)) = stack
    /\ last'.out = "panic" => stack' = stack

C22_Step ==
    /\ \A g \in DOMAIN mods, level \in Levels :
          (has_access(mods[g], level) /\ NewOwner(g, level)) =>
             C22_Acquired(<<g, level>>)
    /\ \A path \in OwnerPaths, cell \in BagToSet(cells),
          pattern \in TriplePatterns :
          ScpPath(path, cell, pattern) =>
             /\ C22_Acquired(C22_Triple(path))
             /\ last'.val # -1 => C22_Triple(path) = C22_Triple(cell.path)
    /\ \A cell \in BagToSet(cells), pattern \in TriplePatterns :
          ScpAuto(cell, pattern) => C22_Acquired(C22_Triple(cell.path))
    /\ \A i \in 1 .. Len(stack), ref \in {"&", "&mut"},
          cell \in BagToSet(cells), pattern \in TriplePatterns :
          ScpBorrow(i, ref, cell, pattern) =>
             /\ C22_Live(stack') = C22_Live(stack)
             /\ last'.val # -1 =>
                   C22_Triple(stack[i].path) = C22_Triple(cell.path)
    /\ (ScpExit \/ DropOwner) =>
          /\ C22_Live(stack') =
                C22_Live(stack) \ (IF Top.owned THEN {C22_Triple(Top.path)}
                                                 ELSE {})
          /\ stack' = SubSeq(stack, 1, Len(stack) - 1)

C22_LivenessPerMarker == [][C22_Step]_vars

C22_Witness ==
    /\ Len(stack) = 2
    /\ stack[1].owned
    /\ stack[2].owned
    /\ stack[1].path = <<"example_acc_grp", "PvtOwner">>
    /\ stack[2].path = <<"example_acc_grp", "PubOwner">>
    /\ last.op = "c_scp"
    /\ last.out = "scope"
    /\ last.val = 5

(* ------------------------------------------------------------------ *)
(* C23: for every generated type exactly one of is_private_access(),   *)
(* is_uniform_access(), is_public_access() is true; get_access_level() *)
(* is the level whose predicate is true; and each instance-level       *)
(* predicate and get_self_access_level equal their static              *)
(* counterparts.                                                       *)
(* ------------------------------------------------------------------ *)
C23_Predicates ==
    [Private |-> "is_private_access", Uniform |-> "is_uniform_access",
     Public |-> "is_public_access"]

C23_SelfPredicates ==
    [Private |-> "is_self_private_access", Uniform |-> "is_self_uniform_access",
     Public |-> "is_self_public_access"]

C23_OneLevel(impls) ==
    LET holds == {lvl \in CellAccessLevels :
                     Call(impls, C23_Predicates[lvl]) = {TRUE}}
    IN
    /\ \A lvl \in CellAccessLevels :
          /\ Cardinality(Call(impls, C23_Predicates[lvl])) = 1
          /\ Cardinality(Providers(impls, C23_Predicates[lvl])) = 1
          /\ Call(impls, C23_SelfPredicates[lvl])
                = Call(impls, C23_Predicates[lvl])
    /\ Cardinality(holds) = 1
    /\ Call(impls, "get_access_level") = holds
    /\ Call(impls, "get_self_access_level") = Call(impls, "get_access_level")

C23_ExactlyOneLevel ==
    /\ \A g \in DOMAIN mods :
          \A n \in DOMAIN mods[g].types : C23_OneLevel(mods[g].types[n].impls)
    /\ \A i \in 1 .. Len(stack) :
          C23_OneLevel(mods[stack[i].path[1]].types[stack[i].path[2]].impls)
    /\ \A cell \in BagToSet(cells) :
          C23_OneLevel(mods[cell.path[1]].types[cell.path[2]].impls)

C23_Witness ==
    /\ Declared
    /\ decls["grp"] = "TCellAccGrp"
    /\ \E i \in 1 .. Len(stack) : stack[i].path = <<"grp", "PvtOwner">>
    /\ \E cell \in BagToSet(cells) : cell.path = <<"grp", "PubCell">>
    /\ Call(mods["grp"].types["PubCell"].impls, "is_self_public_access") = {TRUE}
    /\ Call(mods["grp"].types["PvtOwner"].impls, "get_access_level")
          = {"Private"}

(* ------------------------------------------------------------------ *)
(* C24: in each of the 8 declarations every generated Marker, Owner    *)
(* and Cell type implements the capability traits of its own (kind,    *)
(* access level, role) position: one implementation-kind trait, one    *)
(* access-level trait, one role trait and the matching three-axis      *)
(* composite, and no trait of another kind, level or role.  A          *)
(* Private-category Owner never satisfies a uniform-access or          *)
(* public-access capability, and the Pub and Pvt triples of an Access  *)
(* group never carry each other's access trait.                        *)
(* ------------------------------------------------------------------ *)
C24_KindTraits == {"IsTImpl", "IsTLImpl"}

C24_LevelTraits == {"IsGTPvtAccess", "IsGTUniAccess", "IsGTPubAccess"}

C24_RoleTraits == {"IsGTMarker", "IsGTOwner", "IsGTCell"}

C24_Short == [Private |-> "Pvt", Uniform |-> "Uni", Public |-> "Pub"]

(* The traits of the position (kind, level, role), by the naming of    *)
(* the lattice.                                                        *)
C24_Own(kind, lvl, role) ==
    [kind |-> "Is" \o kind \o "Impl",
     level |-> "IsGT" \o C24_Short[lvl] \o "Access",
     role |-> "IsGT" \o role,
     composite |-> "Is" \o kind \o C24_Short[lvl] \o role]

(* Every trait the type satisfies. *)
C24_Satisfied(impls) == UNION {Bounds(t) : t \in impls}

C24_InPosition(impls, kind, lvl, role) ==
    LET own == C24_Own(kind, lvl, role)
        all == C24_Satisfied(impls)
    IN
    /\ impls \subseteq DOMAIN Supertraits
    /\ all = impls
    /\ all \cap C24_KindTraits = {own.kind}
    /\ all \cap C24_LevelTraits = {own.level}
    /\ all \cap C24_RoleTraits = {own.role}
    /\ own.composite \in impls
    /\ \A t \in impls :
          Bounds(t) \cap (C24_KindTraits \cup C24_LevelTraits \cup C24_RoleTraits)
             \subseteq {own.kind, own.level, own.role}

C24_OwnTraitsOnly ==
    \A g \in DOMAIN mods :
       \A n \in DOMAIN mods[g].types :
          LET ty == mods[g].types[n] IN
          /\ C24_InPosition(ty.impls, DeclaredKind(decls[g]), LevelOfName(n),
                            RoleOfBase(ty.base))
          /\ (DeclaredCategory(decls[g]) = "Private" /\ n = "PvtOwner") =>
                C24_Satisfied(ty.impls)
                   \cap {"IsGTUniAccess", "IsGTPubAccess", "IsTUniAccess",
                         "IsTLUniAccess", "IsTPubAccess", "IsTLPubAccess"} = {}
          /\ DeclaredCategory(decls[g]) = "Access" =>
                /\ LevelOfName(n) = "Public" =>
                      "IsGTPvtAccess" \notin C24_Satisfied(ty.impls)
                /\ LevelOfName(n) = "Private" =>
                      "IsGTPubAccess" \notin C24_Satisfied(ty.impls)

C24_Witness ==
    /\ Declared
    /\ decls["grp"] = "TLCellAccGrp"
    /\ "IsTLPvtOwner" \in mods["grp"].types["PvtOwner"].impls
    /\ "IsTLPubCell" \in mods["grp"].types["PubCell"].impls
    /\ last.op = "new_owner"
    /\ last.out = "owner"
    /\ last.path = <<"grp", "PvtOwner">>

(* ------------------------------------------------------------------ *)
(* C25: a mutable internal borrow (`cell => mut x`, `cell => &mut x`)  *)
(* binds x to the reference rw() returns: a write through x in the     *)
(* trailing statements changes the Cell's stored value, and the new    *)
(* value is what is read once the block has ended (Cell 5, `*x += 1`   *)
(* gives 6 in the block and 6 afterwards).                             *)
(* ------------------------------------------------------------------ *)
C25_Increments ==
    Cardinality({i \in 1 .. Len(blk.trail) : blk.trail[i] = "*x += 1"})

C25_Bound ==
    /\ blk.pattern \in {"mut", "& mut"}
    /\ blk.pc \in {"body", "done"}
    /\ blk.exit # "abort"

C25_WriteThroughBorrow ==
    C25_Bound =>
       /\ blk.ops = <<<<"rw", blk.code.owner.name>>>>
       /\ blk.x.kind = "&mut"
       /\ blk.x.to = blk.cell
       /\ Deref(blk.x) = ro(CellAt(blk.cell))
       /\ ro(CellAt(blk.cell)) = blk.entry + C25_Increments
       /\ \A c \in BagToSet(cells) :
             c.path # blk.cell =>
                ro(c) \in (IF c.path[1] = "test_uni_grp2" THEN {2} ELSE Items)

C25_Witness ==
    /\ C25_Bound
    /\ blk.pattern = "& mut"
    /\ blk.src = "from_path"
    /\ blk.pc = "done"
    /\ blk.exit = "end"
    /\ blk.cell = <<"test_uni_grp", "UniCell">>
    /\ blk.entry = 5
    /\ blk.trail = <<"*x += 1">>
    /\ ro(CellAt(blk.cell)) = 6
    /\ stack = <<>>

(* ------------------------------------------------------------------ *)
(* C26: an internal dereference binding (`cell => * x`, `cell => *mut  *)
(* x`, with any owner source) binds x to a copy of the Cell's value:    *)
(* modifying x in the trailing statements leaves the Cell's stored      *)
(* value unchanged, so a following read of the Cell yields the value it *)
(* held before the block.                                               *)
(* ------------------------------------------------------------------ *)
C26_Ran(stmt) ==
    Cardinality({i \in 1 .. Len(blk.trail) : blk.trail[i] = stmt})

C26_Bound ==
    /\ blk.pattern \in {"*", "* mut"}
    /\ blk.pc \in {"body", "done"}
    /\ blk.exit # "abort"

C26_Copy ==
    C26_Bound =>
       /\ blk.x.kind = "value"
       /\ blk.x.to = NoPath
       /\ blk.x.mut = (blk.pattern = "* mut")
       /\ blk.x.val = Cast(blk.entry, blk.code.bind.cast) + C26_Ran("x += 1")
       /\ ro(CellAt(blk.cell)) = blk.entry + C26_Ran("*cell.rw(owner) += 1")
       /\ blk.trail \in Seq({"x += 1"}) => ro(CellAt(blk.cell)) = blk.entry

C26_Modify ==
    (C26_Bound /\ blk'.x # blk.x) =>
       /\ blk'.x.val = blk.x.val + 1
       /\ cells' = cells

C26_CopyLeavesCell == [] C26_Copy /\ [][C26_Modify]_vars

C26_Witness ==
    /\ C26_Bound
    /\ blk.pattern = "* mut"
    /\ blk.src = "from_self"
    /\ blk.pc = "done"
    /\ blk.exit = "end"
    /\ blk.entry = 5
    /\ blk.trail = <<"x += 1">>
    /\ blk.x.val = 6
    /\ ro(CellAt(blk.cell)) = 5

(* ------------------------------------------------------------------ *)
(* The families macros (lib.rs 1216-1684): new_*_marker_type,          *)
(* new_*_owner_type, new_*_cell_type and the groups of three built     *)
(* from them.  The types they declare are items of the module `<<>>`   *)
(* the macro is invoked in.                                            *)
(* ------------------------------------------------------------------ *)

(* The impls the @finish_build arm of each individual macro writes. *)
new_t_marker_type ==
    {"IsGTMarker", "IsTMarker", "IsTImpl", "IsGTUniAccess", "IsTUniAccess",
     "IsTUniMarker"}

new_tl_marker_type ==
    {"IsGTMarker", "IsTLMarker", "IsTLImpl", "IsGTUniAccess", "IsTLUniAccess",
     "IsTLUniMarker"}

new_t_owner_type == {"IsGTUniAccess", "IsTUniAccess", "IsTUniOwner"}

(* Faulty variant: the thread-local Owner is given the private traits. *)
new_tl_owner_type_private == {"IsGTPvtAccess", "IsTLPvtAccess", "IsTLPvtOwner"}

new_tl_owner_type == {"IsGTUniAccess", "IsTLUniAccess", "IsTLUniOwner"}

new_t_cell_type == {"IsGTUniAccess", "IsTUniAccess", "IsTUniCell"}

new_tl_cell_type == {"IsGTUniAccess", "IsTLUniAccess", "IsTLUniCell"}

(* The names the invocations use for the three types. *)
FamilyNames == [marker |-> "Marker", owner |-> "TestOwner", cell |-> "TestCell"]

(* A visibility written by the caller ("" for none, "pub"), or a `vis`  *)
(* fragment a group macro hands on ("$" for an empty one, "$pub").      *)
Forwarded(vis) == IF vis \in {"", "$"} THEN "$" ELSE "$pub"

VisOf(vis) == IF vis \in {"", "$"} THEN "" ELSE "pub"

(* One entry of an invocation: `vis key : value <generic>` of a group,  *)
(* `Owner[Marker] => Cell<generic>` (key "=>"), or the tokens of an     *)
(* individual macro (key the keyword `type` / `struct` or nothing, value *)
(* the name, generic the shape of what follows the name).               *)
FamilyEntry(vis, key, value, generic) ==
    [vis |-> vis, key |-> key, value |-> value, generic |-> generic]

(* `struct Name;` or `type Name = qcell::...;` *)
Item(kind, vis, name) ==
    [kind |-> kind, rule |-> "", vis |-> vis, name |-> name, tokens |-> <<>>]

(* The individual macro of a kind and a role. *)
Individual(k, role) == "new_" \o k \o "_" \o role \o "_type"

(* @for_individual of new_t_group / new_tl_group (lib.rs 1540-1553,     *)
(* 1622-1635): `cell : Name <T>? [Marker]` is handed to new_*_cell_type  *)
(* as `Name [Marker] <T>?`, `owner : Name [Marker]` to new_*_owner_type. *)
for_family_individual(k, e) ==
    IF e.key = "cell"
    THEN <<Invocation(Individual(k, "cell"), Forwarded(e.vis),
                      <<FamilyEntry("", "", e.value,
                                    IF e.generic = "" THEN "[M]" ELSE "[M]<T>")>>)>>
    ELSE IF e.key = "owner" /\ e.generic = ""
    THEN <<Invocation(Individual(k, "owner"), Forwarded(e.vis),
                      <<FamilyEntry("", "", e.value, "[M]")>>)>>
    ELSE <<>>

(* The arm of new_t_group / new_tl_group that takes `tokens`, in the    *)
(* order of the source: 1 the `Owner[Marker] => Cell` form, 4 to 6 the  *)
(* keyed form with `marker` first, second, third; 0 if none does.       *)
FamilyArm(tokens) ==
    IF Len(tokens) = 1 /\ tokens[1].key = "=>" THEN 1
    ELSE IF Len(tokens) # 3 THEN 0
    ELSE IF tokens[1].key = "marker" /\ tokens[1].generic = "" THEN 4
    ELSE IF tokens[2].key = "marker" /\ tokens[2].generic = "" THEN 5
    ELSE IF tokens[3].key = "marker" /\ tokens[3].generic = "" THEN 6
    ELSE 0

(* What a group macro of kind k writes for `tokens`. *)
FamilyGroup(k, vis, tokens) ==
    LET arm == FamilyArm(tokens)
        marker(e) == <<Invocation(Individual(k, "marker"), Forwarded(e.vis),
                                  <<FamilyEntry("", "", e.value, "")>>)>>
        rest == IF arm = 4 THEN <<tokens[2], tokens[3]>>
                ELSE IF arm = 5 THEN <<tokens[1], tokens[3]>>
                ELSE <<tokens[1], tokens[2]>>
    IN
    IF arm = 1
    THEN <<Invocation(Individual(k, "marker"), Forwarded(vis),
                      <<FamilyEntry("", "", FamilyNames.marker, "")>>),
           Invocation(Individual(k, "owner"), Forwarded(vis),
                      <<FamilyEntry("", "", FamilyNames.owner, "[M]")>>),
           Invocation(Individual(k, "cell"), Forwarded(vis),
                      <<FamilyEntry("", "", FamilyNames.cell,
                                    IF tokens[1].generic = "" THEN "[M]"
                                    ELSE "<T>[M]")>>)>>
    ELSE marker(tokens[(arm - 3)])
         \o <<Invocation("new_" \o k \o "_group@for_individual",
                         rest[1].vis, <<rest[1]>>)>>
         \o <<Invocation("new_" \o k \o "_group@for_individual",
                         rest[2].vis, <<rest[2]>>)>>

new_t_group(vis, tokens) == FamilyGroup("t", vis, tokens)

new_tl_group(vis, tokens) == FamilyGroup("tl", vis, tokens)

(* The types declared so far in the invoking module. *)
FamilyTypes == IF <<>> \in DOMAIN mods THEN mods[<<>>].types ELSE <<>>

(* The type `name` declared: the item and the impls of @finish_build. *)
Declare(name, base, impls) ==
    mods' = (<<>> :> [types |->
                (name :> Type(base, FamilyNames.marker, impls)) @@ FamilyTypes])

(* new_t_group! / new_tl_group! { ... } *)
ExpandGroup(k, at, i) ==
    /\ Pending(at, i, "new_" \o k \o "_group")
    /\ LET call == unit.items[at][i] IN
       /\ FamilyArm(call.tokens) # 0
       /\ unit' = Expanded(at, i,
                           IF k = "t" THEN new_t_group(call.vis, call.tokens)
                           ELSE new_tl_group(call.vis, call.tokens), <<>>)
    /\ UNCHANGED <<decls, mods, registry, stack, cells, mode, last, blk, outer>>

(* new_*_group! { @for_individual => ( ... ) } *)
ExpandForIndividual(k, at, i) ==
    /\ Pending(at, i, "new_" \o k \o "_group@for_individual")
    /\ LET new == for_family_individual(k, unit.items[at][i].tokens[1]) IN
       /\ new # <<>>
       /\ unit' = Expanded(at, i, new, <<>>)
    /\ UNCHANGED <<decls, mods, registry, stack, cells, mode, last, blk, outer>>

(* new_t_marker_type! / new_tl_marker_type! (lib.rs 1216-1312): the     *)
(* struct and its impls.  The arm without a visibility writes `pub      *)
(* struct` in new_t_marker_type and `struct` in new_tl_marker_type.     *)
MarkerType(k, at, i) ==
    /\ Pending(at, i, Individual(k, "marker"))
    /\ LET call == unit.items[at][i]
           e == call.tokens[1]
       IN
       /\ e.key \in {"", "type", "struct"}
       /\ unit' = Expanded(at, i,
                     <<Item("struct",
                            IF call.vis = "" /\ e.key = ""
                            THEN (IF k = "t" THEN "pub" ELSE "")
                            ELSE VisOf(call.vis), e.value)>>, <<>>)
       /\ Declare(e.value, "struct",
                  IF k = "t" THEN new_t_marker_type ELSE new_tl_marker_type)
    /\ UNCHANGED <<decls, registry, stack, cells, mode, last, blk, outer>>

(* new_t_owner_type! / new_tl_owner_type! (lib.rs 1314-1384) *)
OwnerType(k, at, i) ==
    /\ Pending(at, i, Individual(k, "owner"))
    /\ LET call == unit.items[at][i]
           e == call.tokens[1]
       IN
       /\ e.key \in {"", "type"}
       /\ e.generic = "[M]"
       /\ unit' = Expanded(at, i, <<Item("type", VisOf(call.vis), e.value)>>,
                           <<>>)
       /\ Declare(e.value, IF k = "t" THEN "TCellOwner" ELSE "TLCellOwner",
                  IF k = "t" THEN new_t_owner_type ELSE new_tl_owner_type)
    /\ UNCHANGED <<decls, registry, stack, cells, mode, last, blk, outer>>

(* new_t_cell_type! / new_tl_cell_type! (lib.rs 1386-1520) *)
CellType(k, at, i) ==
    /\ Pending(at, i, Individual(k, "cell"))
    /\ LET call == unit.items[at][i]
           e == call.tokens[1]
       IN
       /\ e.key = ""
       /\ e.generic \in {"<T>[M]", "[M]<T>", "[M]"}
       /\ unit' = Expanded(at, i, <<Item("type", VisOf(call.vis), e.value)>>,
                           <<>>)
       /\ Declare(e.value, IF k = "t" THEN "TCell" ELSE "TLCell",
                  IF k = "t" THEN new_t_cell_type ELSE new_tl_cell_type)
    /\ UNCHANGED <<decls, registry, stack, cells, mode, last, blk, outer>>

(* The three static and the three instance methods of introspection. *)
StaticMethods == {"get_cell_impl", "get_cell_role", "get_access_level"}

SelfMethods ==
    {"get_self_cell_impl", "get_self_cell_role", "get_self_access_level"}

(* What a call of `method` on the type `name` gives: the value of the   *)
(* one implemented trait that provides the method, else no resolution.  *)
Answer(name, method) ==
    LET got == Call(FamilyTypes[name].impls, method) IN
    IF Cardinality(got) = 1 THEN CHOOSE v \in got : TRUE ELSE "unresolved"

(* Name::get_cell_impl() and the like (lib.rs 3952-3960) *)
StaticCall(name, method) ==
    /\ unit.items # <<>>
    /\ FullyExpanded
    /\ mode = "run"
    /\ name \in DOMAIN FamilyTypes
    /\ last' = Result(method, <<name, "static">>, Answer(name, method),
                      <<<<>>, name>>, <<>>, -1)
    /\ UNCHANGED <<decls, mods, registry, stack, cells, mode, blk, outer, unit>>

(* let def_owner = Owner::new(); *)
FamilyNewOwner(name) ==
    /\ unit.items # <<>>
    /\ FullyExpanded
    /\ mode = "run"
    /\ name \in DOMAIN FamilyTypes
    /\ RoleOfBase(FamilyTypes[name].base) = "Owner"
    /\ Acquire("let", <<<<>>, name>>, "own", "new", <<name, "new">>, -1)
    /\ UNCHANGED <<decls, mods, cells, blk, outer, unit>>

(* let def_cell = Cell::new(1); *)
FamilyNewCell(name) ==
    /\ unit.items # <<>>
    /\ FullyExpanded
    /\ mode = "run"
    /\ name \in DOMAIN FamilyTypes
    /\ RoleOfBase(FamilyTypes[name].base) = "Cell"
    /\ BagCardinality(cells) < MaxCells
    /\ cells' = cells (+) SetToBag({CellNew(<<<<>>, name>>, 1)})
    /\ last' = Result("new", <<name, "new">>, "cell", <<<<>>, name>>, <<>>, 1)
    /\ UNCHANGED <<decls, mods, registry, stack, mode, blk, outer, unit>>

(* The types of which the program holds a value: the Owners bound, the  *)
(* Cells made, and the Markers (unit structs).                          *)
Instances ==
    {stack[j].path[2] : j \in 1 .. Len(stack)}
    \cup {c.path[2] : c \in BagToSet(cells)}
    \cup {n \in DOMAIN FamilyTypes : FamilyTypes[n].base = "struct"}

(* def_owner.get_self_cell_impl() and the like (lib.rs 3962-3967) *)
SelfCall(name, method) ==
    /\ unit.items # <<>>
    /\ FullyExpanded
    /\ mode = "run"
    /\ name \in Instances
    /\ last' = Result(method, <<name, "self">>, Answer(name, method),
                      <<<<>>, name>>, <<>>, -1)
    /\ UNCHANGED <<decls, mods, registry, stack, cells, mode, blk, outer, unit>>

(* ------------------------------------------------------------------ *)
(* The invocations expanded: one group in the `Owner[Marker] => Cell`  *)
(* form or in the keyed form, its entries in any order, or the three    *)
(* individual macros, each in every grammar it has.                     *)
(* ------------------------------------------------------------------ *)
FamilyKinds == {"t", "tl"}

Arrows ==
    {<<Invocation("new_" \o k \o "_group", vis,
                  <<FamilyEntry("", "=>", "", g)>>)>> :
        k \in FamilyKinds, vis \in {"", "pub"}, g \in {"", "T"}}

Orders ==
    {<<"marker", "owner", "cell">>, <<"marker", "cell", "owner">>,
     <<"owner", "marker", "cell">>, <<"cell", "marker", "owner">>,
     <<"owner", "cell", "marker">>, <<"cell", "owner", "marker">>}

Keyed ==
    {<<Invocation("new_" \o k \o "_group", "",
         [j \in 1 .. 3 |->
             FamilyEntry(vis, o[j], FamilyNames[o[j]],
                         IF o[j] = "cell" THEN g ELSE "")])>> :
        k \in FamilyKinds, vis \in {"", "pub"}, g \in {"", "T"}, o \in Orders}

(* The three individual macros, marker, cell, owner, each in one of its  *)
(* grammars: a visibility or none; `type` / `struct` or nothing before  *)
(* a Marker, `type` or nothing before an Owner; the three shapes of a   *)
(* Cell.                                                                *)
Individuals ==
    LET MarkerGrammars == {"", "pub"} \X {"", "type", "struct"}
        OwnerGrammars == {"", "pub"} \X {"", "type"}
        CellGrammars == {"", "pub"} \X {"<T>[M]", "[M]<T>", "[M]"}
    IN
    {<<Invocation(Individual(k, "marker"), m[1],
                  <<FamilyEntry("", m[2], FamilyNames.marker, "")>>),
       Invocation(Individual(k, "cell"), c[1],
                  <<FamilyEntry("", "", FamilyNames.cell, c[2])>>),
       Invocation(Individual(k, "owner"), o[1],
                  <<FamilyEntry("", o[2], FamilyNames.owner, "[M]")>>)>> :
        k \in FamilyKinds,
        m \in MarkerGrammars, o \in OwnerGrammars, c \in CellGrammars}

(* The units in which at most one of the three individual invocations   *)
(* departs from its shortest grammar.                                   *)
OneVaried ==
    {u \in Individuals :
        Cardinality({j \in 1 .. 3 :
            u[j].vis # "" \/ u[j].tokens[1].key # ""
            \/ u[j].tokens[1].generic \notin {"", "[M]"}}) <= 1}

FamilyInit ==
    /\ decls = <<>>
    /\ mods = <<>>
    /\ registry = {}
    /\ stack = <<>>
    /\ cells = EmptyBag
    /\ mode = "run"
    /\ last = Result("init", <<"", "">>, "none", NoPath, <<>>, -1)
    /\ blk = NoBlock
    /\ outer = NoVar
    /\ \E u \in Arrows \cup Keyed \cup OneVaried :
          unit = [decl |-> u, items |-> (<<>> :> u)]

FamilyNext ==
    \/ \E k \in FamilyKinds, at \in DOMAIN unit.items :
          \E i \in 1 .. Len(unit.items[at]) : ExpandGroup(k, at, i)
    \/ \E k \in FamilyKinds, at \in DOMAIN unit.items :
          \E i \in 1 .. Len(unit.items[at]) : ExpandForIndividual(k, at, i)
    \/ \E k \in FamilyKinds, at \in DOMAIN unit.items :
          \E i \in 1 .. Len(unit.items[at]) : MarkerType(k, at, i)
    \/ \E k \in FamilyKinds, at \in DOMAIN unit.items :
          \E i \in 1 .. Len(unit.items[at]) : OwnerType(k, at, i)
    \/ \E k \in FamilyKinds, at \in DOMAIN unit.items :
          \E i \in 1 .. Len(unit.items[at]) : CellType(k, at, i)
    \/ \E name \in DOMAIN FamilyTypes, method \in StaticMethods :
          StaticCall(name, method)
    \/ \E name \in DOMAIN FamilyTypes : FamilyNewOwner(name)
    \/ \E name \in DOMAIN FamilyTypes : FamilyNewCell(name)
    \/ \E name \in DOMAIN FamilyTypes, method \in SelfMethods :
          SelfCall(name, method)
    \/ DropOwner /\ UNCHANGED <<blk, outer, unit>>
    \/ Unwind /\ UNCHANGED <<blk, outer, unit>>
    \/ Catch /\ UNCHANGED <<blk, outer, unit>>

FamilySpec == FamilyInit /\ [][FamilyNext]_vars

(* ------------------------------------------------------------------ *)
(* C27: new_t_group / new_tl_group (in the `Owner[Marker] => Cell<T>`  *)
(* form and in the `marker:/owner:/cell:` form, the three entries in   *)
(* any order) and the individual new_*_marker_type / new_*_owner_type  *)
(* / new_*_cell_type always produce Uniform-level types: the Marker,   *)
(* the Owner and the Cell report kind T (resp. TL), access level       *)
(* Uniform and their own role, statically and per instance.            *)
(* ------------------------------------------------------------------ *)
C27_Kind ==
    IF unit.decl[1].rule \in {"new_t_group", "new_t_marker_type"}
    THEN "T" ELSE "TL"

C27_Role(name) ==
    CASE name = FamilyNames.marker -> "Marker"
      [] name = FamilyNames.owner -> "Owner"
      [] name = FamilyNames.cell -> "Cell"

C27_Expected(name, method) ==
    CASE method \in {"get_cell_impl", "get_self_cell_impl"} -> C27_Kind
      [] method \in {"get_cell_role", "get_self_cell_role"} -> C27_Role(name)
      [] method \in {"get_access_level", "get_self_access_level"} -> "Uniform"

C27_Produced ==
    (unit.items # <<>> /\ FullyExpanded) =>
       /\ DOMAIN FamilyTypes =
             {FamilyNames.marker, FamilyNames.owner, FamilyNames.cell}
       /\ \A name \in DOMAIN FamilyTypes :
             /\ RoleOfBase(FamilyTypes[name].base) = C27_Role(name)
             /\ C27_Kind \in KindOfBase(FamilyTypes[name].base)
             /\ FamilyTypes[name].marker = FamilyNames.marker
             /\ \A t \in FamilyTypes[name].impls :
                   Bounds(t) \subseteq FamilyTypes[name].impls
             /\ \A method \in StaticMethods \cup SelfMethods :
                   Answer(name, method) = C27_Expected(name, method)

C27_Reported ==
    last'.op \in StaticMethods \cup SelfMethods =>
       last'.out = C27_Expected(last'.arg[1], last'.op)

C27_AlwaysUniform == [] C27_Produced /\ [][C27_Reported]_vars

C27_Witness ==
    /\ C27_Kind = "TL"
    /\ Len(unit.decl) = 1
    /\ Len(unit.decl[1].tokens) = 3
    /\ unit.decl[1].tokens[1].key = "cell"
    /\ unit.decl[1].tokens[2].key = "marker"
    /\ FullyExpanded
    /\ \E j \in 1 .. Len(stack) : stack[j].path = <<<<>>, FamilyNames.owner>>
    /\ last.op = "get_self_access_level"
    /\ last.arg = <<FamilyNames.owner, "self">>
    /\ last.out = "Uniform"

(* ------------------------------------------------------------------ *)
(* C28: whenever a binding pattern carries a coercion type (`: T` on   *)
(* the internal forms, `as T` on the external forms), the value bound  *)
(* or assigned is the accessed value of the Cell coerced to T (for a   *)
(* narrower integer T, the value modulo 2^width(T)), and the coercion  *)
(* never changes the value stored in the Cell.                         *)
(* ------------------------------------------------------------------ *)
C28_Carried ==
    /\ blk.pc \in {"body", "done"}
    /\ blk.exit # "abort"
    /\ blk.code.bind.cast # ""

C28_Target ==
    IF blk.code.bind.stmt \in {"assign", "assign &", "assign *"}
    THEN outer ELSE blk.x

C28_CoercionBindsValue ==
    /\ C28_Carried =>
          /\ C28_Target.kind = "value"
          /\ C28_Target.val =
                Cast(blk.entry, blk.code.bind.cast) + C26_Ran("x += 1")
          /\ ro(CellAt(blk.cell)) =
                blk.entry + C26_Ran("*cell.rw(owner) += 1")
    /\ ~(last.out = "rejected" /\ last.arg[2] # "")

C28_Divergence ==
    /\ last.op = "rustc"
    /\ last.out = "rejected"
    /\ last.arg = <<"name", "u8">>
    /\ mode = "rejected"
    /\ blk = NoBlock
    /\ outer = NoVar
    /\ \E c \in BagToSet(cells) : c.path = last.path /\ ro(c) = 261

(* ------------------------------------------------------------------ *)
(* C29: with the Get*Owner implementations impl_get_pvt / impl_get_pub *)
(* / impl_get_uni generate, a block with the self-lookup owner source  *)
(* (`use [self]`) is equivalent to the same block with the             *)
(* auto-inferred one (`use _`): each invocation constructs a brand-new *)
(* Owner of the accessed Cell's triple, never a cached or shared one,  *)
(* performs the same access and binding, and releases that Owner at    *)
(* block end, leaving the same Cell value and the same owner-liveness  *)
(* state.                                                              *)
(* ------------------------------------------------------------------ *)
C29_Sources == {"from_auto", "from_self"}

C29_SameBlock ==
    \A name \in OwnerNames, pattern \in Patterns, cast \in Casts,
       body \in BOOLEAN :
       LET auto == Block("from_auto", name, pattern, cast, body)
           self == Block("from_self", name, pattern, cast, body)
           scope == reorganize_body1(pattern).scope
       IN
       /\ self = [auto EXCEPT !.owner.init = handle_owner_source("from_self")]
       /\ TypeChecks(self, scope, cast) = TypeChecks(auto, scope, cast)

C29_SameOwner ==
    \A cell \in BagToSet(cells) :
       LET bridge == mods[cell.path[1]].bridges[cell.path[2]] IN
       {get_owner(impl.getter, impl.T) :
           impl \in Resolve(SelfImpls, bridge.get_matching_owner_from,
                            <<cell.path[1], bridge.OwnerType>>)}
          = {<<cell.path[1], bridge.get_new_matching_owner>>}

C29_SameEnabled ==
    blk.pc = "idle" =>
       \A name \in OwnerNames, cell \in BagToSet(cells), pattern \in Patterns,
          cast \in Casts, body \in BOOLEAN :
          (ENABLED BlockFromAuto(name, cell, pattern, cast, body))
             <=> (ENABLED BlockFromSelf(name, cell, pattern, cast, body))

C29_Done ==
    (blk.pc = "done" /\ blk.src \in C29_Sources
        /\ blk.exit \in {"end", "return"}) =>
       /\ Len(stack) = blk.depth - 1
       /\ \A i \in 1 .. Len(stack) : stack[i].what = "let"
       /\ MarkerOf(blk.owner) \notin registry
       /\ ro(CellAt(blk.cell)) =
             blk.entry + C26_Ran("*x += 1") + C26_Ran("*cell.rw(owner) += 1")

C29_Opened ==
    (blk.pc = "idle" /\ blk'.pc # "idle" /\ blk'.src \in C29_Sources) =>
       LET marker == MarkerOf(blk'.cell) IN
       /\ blk'.owner[1] = blk'.cell[1]
       /\ blk'.owner \in OwnerPaths
       /\ MarkerOf(blk'.owner) = marker
       /\ cells' = cells
       /\ IF marker \in registry
          THEN /\ mode' = "unwind"
               /\ blk'.exit = "abort"
               /\ stack' = stack
               /\ registry' = registry
          ELSE /\ mode' = "run"
               /\ stack' = Append(stack, Frame("scp", blk'.owner, TRUE,
                                               blk'.code.owner.ref,
                                               Len(stack) + 1))
               /\ registry' = registry \cup {marker}

C29_SelfIsAuto ==
    /\ [] (C29_SameBlock /\ C29_SameOwner /\ C29_SameEnabled /\ C29_Done)
    /\ [][C29_Opened]_vars

C29_Witness ==
    /\ blk.src = "from_self"
    /\ blk.pc = "done"
    /\ blk.exit = "end"
    /\ blk.pattern = "mut"
    /\ blk.cell = <<"test_uni_grp2", "UniCell">>
    /\ blk.owner = <<"test_uni_grp2", "UniOwner">>
    /\ blk.trail = <<"*x += 1">>
    /\ ro(CellAt(blk.cell)) = 3
    /\ stack = <<>>
    /\ registry = {}

====
